---- MODULE Spec2Model ----
(***************************************************************************)
(* Model of the OAuth client orchestrator of src/client/auth.ts: auth()    *)
(* and authInternal(), the flow primitives they call, and the session      *)
(* provider they consume.  Every await of the source is one step of the    *)
(* model; the provider and the HTTP server are the environment, and each   *)
(* of their answers (a value, or a thrown error) is a nondeterministic     *)
(* choice.                                                                 *)
(***************************************************************************)
EXTENDS Integers, Sequences, FiniteSets, TLC

VARIABLES
    store,      \* the provider's session store: client, tokens, verifier
    cap,        \* which optional provider members are implemented
    opt,        \* the options of the current auth() call
    pc,         \* position of the current auth() call
    run,        \* number of the current inner run (authInternal) of the call
    calls,      \* auth() calls started so far
    loc,        \* locals of the current inner run
    trace,      \* operations of the current inner run, in order
    runErrs,    \* errors thrown by the inner runs of the current call
    inval,      \* invalidateCredentials invocations of the current call
    result,     \* outcome of the current call
    thrown      \* the error of the call when result = "THROWN"

vars == <<store, cap, opt, pc, run, calls, loc, trace, runErrs, inval, result, thrown>>

\* Number of auth() calls made in a row on the same provider.
MaxCalls == 1

\* ---------------------------------------------------------------- values

\* JavaScript undefined, for string-valued and for object-valued slots.
Undefined == "undefined"
NoRec == [undefined |-> TRUE]

\* URLs are records of origin, path segments and fragment.
Url(origin, path) == [origin |-> origin, path |-> path, hash |-> ""]

ServerUrl == [origin |-> "https://srv.example", path |-> <<"mcp">>, hash |-> "frag"]

AuthServerUrl == Url("https://as.example", <<>>)

\* OAuthClientInformation values: a public client and a confidential one in
\* the store, and the record the registration endpoint may answer with.
StoredClients ==
    { [client_id |-> "abc", client_secret |-> Undefined],
      [client_id |-> "abc", client_secret |-> "shh"] }

RegisteredClients ==
    { [client_id |-> "reg1", client_secret |-> Undefined] }

\* OAuthTokens values held by the store before the first call.
StoredTokens ==
    { [access_token |-> "A1", refresh_token |-> Undefined],
      [access_token |-> "A1", refresh_token |-> "R1"] }

\* Bodies of successful token-endpoint responses.
TokenResponses ==
    { [access_token |-> "A2", refresh_token |-> Undefined],
      [access_token |-> "A2", refresh_token |-> "R2"] }

\* Verifiers pkceChallenge() may generate, and the challenge of each.
Verifiers == {"v1", "v2"}

Challenge(v) == <<"S256", v>>

\* ---------------------------------------------------------------- errors

\* Classes of ../server/auth/errors.js that parseErrorResponse can build:
\* the OAUTH_ERRORS classes (one further class stands for the rest) and
\* ServerError.  All of them are OAuthError.
OAuthErrors ==
    { "InvalidClientError", "UnauthorizedClientError", "InvalidGrantError",
      "InvalidRequestError", "ServerError" }

IsOAuthError(e) == e \in OAuthErrors

IsServerError(e) == e = "ServerError"

\* Errors that are no OAuthError: a fetch that rejects (TypeError), a body
\* the schema rejects, a provider member that throws, and the plain Errors
\* the module itself throws.
TransportError == "TypeError"
ParseError == "ZodError"
ProviderError == "ProviderError"
StateMissing == "Existing OAuth client information is required when exchanging an authorization code"
NotSaveable == "OAuth client information must be saveable for dynamic registration"
Incompatible == "Incompatible auth server"
MissingSecret == "client_secret_basic authentication requires a client_secret"
ResourceMismatch == "Protected resource does not match expected"
DiscoveryError == "HTTP error trying to load metadata"
CorsError == "CORS error trying to load metadata"
IncompatibleOidc == "Incompatible OIDC provider"
AbortError == "AbortError"
NotImplemented == "Resource server does not implement OAuth 2.0 Protected Resource Metadata."
ResourceDiscoveryError == "HTTP error trying to load well-known OAuth protected resource metadata."

\* ---------------------------------------------------------------- metadata

\* AuthorizationServerMetadata as far as the module reads it.  An absent
\* list is the empty set, except grant_types_supported, whose absence the
\* primitives tell from a list (has_grant_types).
MdFull ==
    [ registration_endpoint |-> TRUE,
      has_grant_types |-> FALSE,
      grant_types_supported |-> {},
      response_types_supported |-> {"code"},
      code_challenge_methods_supported |-> {"S256"},
      token_endpoint_auth_methods_supported |-> {} ]

Metadatas ==
    { MdFull,
      [MdFull EXCEPT !.registration_endpoint = FALSE,
                     !.has_grant_types = TRUE,
                     !.grant_types_supported = {"refresh_token"},
                     !.code_challenge_methods_supported = {"plain"},
                     !.token_endpoint_auth_methods_supported = {"client_secret_basic", "none"}],
      [MdFull EXCEPT !.has_grant_types = TRUE,
                     !.grant_types_supported = {"authorization_code"},
                     !.response_types_supported = {"token"},
                     !.token_endpoint_auth_methods_supported = {"client_secret_post"}] }

\* OAuthProtectedResourceMetadata: resource and authorization_servers.
ResourceMetadatas ==
    { [resource |-> Url("https://srv.example", <<>>),
       authorization_servers |-> <<AuthServerUrl, Url("https://as2.example", <<>>)>>],
      [resource |-> Url("https://other.example", <<>>),
       authorization_servers |-> <<>>] }

\* ../shared/auth-utils.js
ResourceUrlFromServerUrl(u) == [u EXCEPT !.hash = ""]

IsPrefix(p, q) == Len(p) <= Len(q) /\ \A i \in 1..Len(p) : p[i] = q[i]

CheckResourceAllowed(requested, configured) ==
    /\ requested.origin = configured.origin
    /\ IsPrefix(configured.path, requested.path)

\* ---------------------------------------------------------------- discovery

\* pathname without its trailing slash; a path is the sequence of its
\* segments, "/" the empty one, and a trailing slash an empty last segment.
StripTrailingSlash(path) ==
    IF path # <<>> /\ path[Len(path)] = ""
    THEN SubSeq(path, 1, Len(path) - 1)
    ELSE path

WellKnown(name) == <<".well-known", name>>

BuildDiscoveryUrls(authorizationServerUrl) ==
    LET url == authorizationServerUrl
        hasPath == url.path # <<>>
        pathname == StripTrailingSlash(url.path)
        At(path, type) == [url |-> Url(url.origin, path), type |-> type]
    IN  IF ~hasPath
        THEN << At(WellKnown("oauth-authorization-server"), "oauth"),
                At(WellKnown("openid-configuration"), "oidc") >>
        ELSE << At(WellKnown("oauth-authorization-server") \o pathname, "oauth"),
                At(WellKnown("oauth-authorization-server"), "oauth"),
                At(WellKnown("openid-configuration") \o pathname, "oidc"),
                At(pathname \o WellKnown("openid-configuration"), "oidc") >>

\* HTTP statuses a metadata endpoint may answer with, and response.ok.
Statuses == {200, 302, 401, 404, 500}

Ok(status) == status >= 200 /\ status <= 299

\* Seeded fault: only 404 leads to the next candidate.
OnResponseOnly404(response) ==
    IF response = NoRec
    THEN [next |-> "throw", error |-> CorsError]
    ELSE IF ~Ok(response.status)
    THEN (IF response.status = 404
          THEN [next |-> "continue", error |-> Undefined]
          ELSE [next |-> "throw", error |-> DiscoveryError])
    ELSE [next |-> "body", error |-> Undefined]

\* Seeded fault: a candidate without a response is passed over.
OnResponseCorsContinues(response) ==
    IF response = NoRec
    THEN [next |-> "continue", error |-> Undefined]
    ELSE IF ~Ok(response.status)
    THEN (IF response.status >= 400 /\ response.status < 500
          THEN [next |-> "continue", error |-> Undefined]
          ELSE [next |-> "throw", error |-> DiscoveryError])
    ELSE [next |-> "body", error |-> Undefined]

\* What the loop of discoverAuthorizationServerMetadata does with what
\* fetchWithCorsRetry returned: a response, or none (NoRec).
OnResponse(response) ==
    IF response = NoRec
    THEN [next |-> "throw", error |-> CorsError]
    ELSE IF ~Ok(response.status)
    THEN (IF response.status >= 400 /\ response.status < 500
          THEN [next |-> "continue", error |-> Undefined]
          ELSE [next |-> "throw", error |-> DiscoveryError])
    ELSE [next |-> "body", error |-> Undefined]

\* Seeded fault: an OIDC document accepted without the S256 check.
OnDocumentUnchecked(type, metadata) == [metadata |-> metadata, error |-> Undefined]

\* What it does with a parsed 2xx document of either type.
OnDocument(type, metadata) ==
    IF type = "oidc" /\ "S256" \notin metadata.code_challenge_methods_supported
    THEN [metadata |-> NoRec, error |-> IncompatibleOidc]
    ELSE [metadata |-> metadata, error |-> Undefined]

\* shouldAttemptFallback(response, pathname): && binds tighter than ||.
ShouldAttemptFallback(response, pathname) ==
    \/ response = NoRec
    \/ (response.status = 404 /\ pathname # <<>>)

\* The URL discoverMetadataWithFallback requests first, and rootUrl.
ResourceDiscoveryUrl(issuer, metadataUrl) ==
    IF metadataUrl # NoRec
    THEN metadataUrl
    ELSE Url(issuer.origin,
             WellKnown("oauth-protected-resource") \o StripTrailingSlash(issuer.path))

RootUrl(issuer) == Url(issuer.origin, WellKnown("oauth-protected-resource"))

\* What discoverOAuthProtectedResourceMetadata does with what
\* discoverMetadataWithFallback returned.
OnResourceResponse(response) ==
    IF response = NoRec \/ response.status = 404
    THEN [next |-> "throw", error |-> NotImplemented]
    ELSE IF ~Ok(response.status)
    THEN [next |-> "throw", error |-> ResourceDiscoveryError]
    ELSE [next |-> "body", error |-> Undefined]

\* Errors a call of fetchFn may throw: a TypeError, as a CORS failure
\* surfaces, or any other.
FetchErrors == {TransportError, AbortError}

\* Seeded fault: any error of the request with headers is retried.
OnFetchErrorRetriesAny(error, withHeaders) ==
    IF withHeaders THEN "retry"
    ELSE IF error = TransportError THEN "undefined" ELSE "throw"

\* The catch of fetchWithCorsRetry: repeat the request without headers,
\* return undefined, or rethrow.
OnFetchError(error, withHeaders) ==
    IF error = TransportError
    THEN (IF withHeaders THEN "retry" ELSE "undefined")
    ELSE "throw"

\* ---------------------------------------------------------------- client authentication

\* A JavaScript string that is neither undefined nor empty.
Truthy(s) == s # Undefined /\ s # ""

\* Seeded fault: "none" taken from the server's list before the methods
\* that use the secret.
SelectClientAuthMethodNoneFirst(clientInformation, supportedMethods) ==
    LET hasClientSecret == clientInformation.client_secret # Undefined
    IN  IF supportedMethods = {}
        THEN (IF hasClientSecret THEN "client_secret_post" ELSE "none")
        ELSE IF "none" \in supportedMethods
        THEN "none"
        ELSE IF hasClientSecret /\ "client_secret_basic" \in supportedMethods
        THEN "client_secret_basic"
        ELSE IF hasClientSecret THEN "client_secret_post" ELSE "none"

SelectClientAuthMethod(clientInformation, supportedMethods) ==
    LET hasClientSecret == clientInformation.client_secret # Undefined
    IN  IF supportedMethods = {}
        THEN (IF hasClientSecret THEN "client_secret_post" ELSE "none")
        ELSE IF hasClientSecret /\ "client_secret_basic" \in supportedMethods
        THEN "client_secret_basic"
        ELSE IF hasClientSecret /\ "client_secret_post" \in supportedMethods
        THEN "client_secret_post"
        ELSE IF "none" \in supportedMethods
        THEN "none"
        ELSE (IF hasClientSecret THEN "client_secret_post" ELSE "none")

\* What the chosen method puts on the request: the Authorization header and
\* the client_id and client_secret body parameters, or the error it throws.
ApplyClientAuthentication(method, clientInformation) ==
    LET id == clientInformation.client_id
        secret == clientInformation.client_secret
        noAuth == [error |-> Undefined, method |-> method, authorization |-> NoRec,
                   client_id |-> Undefined, client_secret |-> Undefined,
                   callback |-> "none"]
    IN  CASE method = "client_secret_basic" ->
                IF ~Truthy(secret)
                THEN [noAuth EXCEPT !.error = MissingSecret]
                ELSE [noAuth EXCEPT !.authorization =
                        [scheme |-> "Basic", credentials |-> <<id, secret>>]]
          [] method = "client_secret_post" ->
                [noAuth EXCEPT !.client_id = id,
                               !.client_secret = IF Truthy(secret) THEN secret ELSE Undefined]
          [] OTHER ->
                [noAuth EXCEPT !.client_id = id]

\* Seeded fault: the built-in selection applied whether or not the
\* provider has addClientAuthentication.
ClientAuthenticationBuiltInToo(custom, clientInformation, metadata) ==
    ApplyClientAuthentication(
        SelectClientAuthMethod(clientInformation,
            IF metadata = NoRec THEN {}
            ELSE metadata.token_endpoint_auth_methods_supported),
        clientInformation)

\* The client authentication of a token request: left to the provider's
\* addClientAuthentication when there is one, else selected and applied.
ClientAuthentication(custom, clientInformation, metadata) ==
    IF custom
    THEN [error |-> Undefined, method |-> "custom", authorization |-> NoRec,
          client_id |-> Undefined, client_secret |-> Undefined,
          callback |-> "completed"]
    ELSE ApplyClientAuthentication(
            SelectClientAuthMethod(clientInformation,
                IF metadata = NoRec THEN {}
                ELSE metadata.token_endpoint_auth_methods_supported),
            clientInformation)

\* The method selectClientAuthMethod returned for a token request, if it
\* was called at all.
MethodSelected(auth) ==
    IF auth.method = "custom" THEN Undefined ELSE auth.method

\* addClientAuthentication(headers, params, ...) is called and its result
\* dropped: a callback that returns a promise may have set what it sets
\* when the request is sent ("completed"), or may set it later ("pending").
CallbackAtRequest(auth) ==
    IF auth.method = "custom" THEN {"completed", "pending"} ELSE {"none"}

\* The grant-type check of exchangeAuthorization and refreshAuthorization.
GrantUnsupported(metadata, grantType) ==
    /\ metadata # NoRec
    /\ metadata.has_grant_types
    /\ grantType \notin metadata.grant_types_supported

\* Seeded fault: the spread in the other order, the previous refresh token
\* written over the response's.
RefreshedTokensKeepingPrevious(refreshToken, response) ==
    [ access_token |-> response.access_token,
      refresh_token |-> refreshToken ]

\* The tokens refreshAuthorization returns for a response body.
RefreshedTokens(refreshToken, response) ==
    [ access_token |-> response.access_token,
      refresh_token |-> IF response.refresh_token # Undefined
                        THEN response.refresh_token ELSE refreshToken ]

\* tokens?.refresh_token
HasRefreshToken(tokens) == tokens # NoRec /\ Truthy(tokens.refresh_token)

\* ---------------------------------------------------------------- orchestrator decisions

\* Seeded fault: the catch of auth() with invalid_grant handled like
\* invalid_client.
RecoveryScopeGrantAsClient(e) ==
    IF e \in {"InvalidClientError", "UnauthorizedClientError", "InvalidGrantError"}
    THEN "all"
    ELSE "none"

\* Seeded fault: the catch of auth() without its invalid_grant arm.
RecoveryScopeClientOnly(e) ==
    IF e \in {"InvalidClientError", "UnauthorizedClientError"} THEN "all" ELSE "none"

\* Seeded fault: invalid_client invalidates the client information alone.
RecoveryScopeClientAlone(e) ==
    IF e \in {"InvalidClientError", "UnauthorizedClientError"} THEN "client"
    ELSE IF e = "InvalidGrantError" THEN "tokens"
    ELSE "none"

\* The catch of auth(): the scope to invalidate for an error, or "none".
RecoveryScope(e) ==
    IF e \in {"InvalidClientError", "UnauthorizedClientError"} THEN "all"
    ELSE IF e = "InvalidGrantError" THEN "tokens"
    ELSE "none"

\* Seeded fault: the retry inside its own try, so that it retries again.
CanRecoverEveryRun(r, e) == RecoveryScope(e) # "none"

\* Whether a failure of inner run r is caught and retried: only the first
\* authInternal call is inside the try.
CanRecover(r, e) == r = 1 /\ RecoveryScope(e) # "none"

\* Seeded fault: a catch that swallows ServerError alone.
SwallowsServerErrorOnly(e) == IsServerError(e)

\* The catch around the refresh attempt: swallow, or re-throw.
SwallowsRefreshError(e) == ~IsOAuthError(e) \/ IsServerError(e)

\* Seeded fault: the authorization code is not looked at.
BranchIgnoringCode(authorizationCode) == "tokens"

\* The branch on authorizationCode once client information is at hand.
Branch(authorizationCode) ==
    IF authorizationCode # Undefined THEN "verifier" ELSE "tokens"

\* Seeded fault: no check of authorizationCode when client information
\* is missing.
OnClientInformationNoCodeCheck(clientInformation, authorizationCode, canSave) ==
    IF clientInformation # NoRec
    THEN [next |-> Branch(authorizationCode), error |-> Undefined]
    ELSE IF ~canSave
    THEN [next |-> "throw", error |-> NotSaveable]
    ELSE [next |-> "register", error |-> Undefined]

\* Seeded fault: no check of provider.saveClientInformation before
\* registering.
OnClientInformationNoSaveCheck(clientInformation, authorizationCode, canSave) ==
    IF clientInformation # NoRec
    THEN [next |-> Branch(authorizationCode), error |-> Undefined]
    ELSE IF authorizationCode # Undefined
    THEN [next |-> "throw", error |-> StateMissing]
    ELSE [next |-> "register", error |-> Undefined]

\* What authInternal does with the answer of provider.clientInformation().
OnClientInformation(clientInformation, authorizationCode, canSave) ==
    IF clientInformation # NoRec
    THEN [next |-> Branch(authorizationCode), error |-> Undefined]
    ELSE IF authorizationCode # Undefined
    THEN [next |-> "throw", error |-> StateMissing]
    ELSE IF ~canSave
    THEN [next |-> "throw", error |-> NotSaveable]
    ELSE [next |-> "register", error |-> Undefined]

\* A provider that deletes what invalidateCredentials names.
Invalidated(s, scope) ==
    CASE scope = "all" -> [client |-> NoRec, tokens |-> NoRec, verifier |-> Undefined]
      [] scope = "client" -> [s EXCEPT !.client = NoRec]
      [] scope = "tokens" -> [s EXCEPT !.tokens = NoRec]
      [] scope = "verifier" -> [s EXCEPT !.verifier = Undefined]

\* ---------------------------------------------------------------- state

Caps ==
    [ saveClientInformation : BOOLEAN,
      invalidateCredentials : BOOLEAN,
      state : BOOLEAN,
      addClientAuthentication : BOOLEAN,
      validateResourceURL : BOOLEAN ]

InitLoc ==
    [ authorizationServerUrl |-> NoRec,
      resourceMetadata |-> NoRec,
      resource |-> NoRec,
      metadata |-> NoRec,
      clientInformation |-> NoRec,
      loaded |-> "none",          \* what provider.clientInformation() answered
      fullInformation |-> NoRec,
      codeVerifier |-> Undefined,
      tokens |-> NoRec,
      newTokens |-> NoRec,
      refreshError |-> Undefined, \* the error refreshAuthorization threw
      state |-> Undefined,
      authorizationUrl |-> NoRec,
      request |-> NoRec,          \* the token request last sent
      response |-> NoRec,         \* the body of its 2xx response
      recoveredFrom |-> Undefined, \* the operation whose error auth() caught
      authMethod |-> Undefined,   \* what selectClientAuthMethod returned
      pkceLacking |-> Undefined,  \* the type of a 2xx document without S256
      urlsToTry |-> <<>>,         \* the candidates of a discovery
      index |-> 0,                \* the candidate the loop is at
      named |-> NoRec,            \* the URL a discovery error names
      issuer |-> NoRec,           \* the server URL of a resource discovery
      metadataUrl |-> NoRec,      \* its opts.metadataUrl
      sent |-> <<>> ]             \* the primitives of the run that send requests

Init ==
    /\ store \in [ client : StoredClients \cup {NoRec},
                   tokens : StoredTokens \cup {NoRec},
                   verifier : {Undefined, "v1"} ]
    /\ cap \in Caps
    /\ opt = [authorizationCode |-> Undefined, fetchFn |-> FALSE]
    /\ pc = "idle"
    /\ run = 0
    /\ calls = 0
    /\ loc = InitLoc
    /\ trace = <<>>
    /\ runErrs = <<>>
    /\ inval = <<>>
    /\ result = "NONE"
    /\ thrown = Undefined

\* An operation of the run and whether it completed (TRUE) or threw.  For
\* a "fetch:..." operation the request was sent, and ok tells whether a
\* response came back.
Ev(op, ok) == [op |-> op, ok |-> ok]

\* The inner run goes on at p.
Continue(p, evs) ==
    /\ pc' = p
    /\ trace' = trace \o evs
    /\ UNCHANGED <<run, runErrs, inval, result, thrown>>

\* The inner run throws e: auth() catches it and recovers, or the call
\* throws it.
Fail(e, evs) ==
    /\ trace' = trace \o evs
    /\ runErrs' = Append(runErrs, e)
    /\ UNCHANGED <<run, inval>>
    /\ IF CanRecover(run, e)
       THEN pc' = "invalidate" /\ UNCHANGED <<result, thrown>>
       ELSE pc' = "done" /\ result' = "THROWN" /\ thrown' = e

\* The inner run, and with it the call, returns r.
Return(r, evs) ==
    /\ pc' = "done"
    /\ result' = r
    /\ trace' = trace \o evs
    /\ UNCHANGED <<run, runErrs, inval, thrown>>

\* The catch around the refresh attempt.
RefreshCatch(e, evs) ==
    IF SwallowsRefreshError(e) THEN Continue("state", evs) ELSE Fail(e, evs)

\* The function a primitive sends its requests with: its parameter
\* fetchFn where the call passes one on and auth() was given one, the
\* global fetch otherwise.
FetchUsed(passed, fetchFn) == IF passed /\ fetchFn THEN "fetchFn" ELSE "fetch"

\* The authorization server authInternal goes on with.
AuthorizationServerOfLast(resourceMetadata) ==
    IF resourceMetadata # NoRec /\ Len(resourceMetadata.authorization_servers) > 0
    THEN resourceMetadata.authorization_servers[Len(resourceMetadata.authorization_servers)]
    ELSE ServerUrl

AuthorizationServerOf(resourceMetadata) ==
    IF resourceMetadata # NoRec /\ Len(resourceMetadata.authorization_servers) > 0
    THEN resourceMetadata.authorization_servers[1]
    ELSE ServerUrl

\* A primitive is called with the URL of a server and sends its requests,
\* with the fetchFn of auth() passed on to it or not.
Sending(op, server, passed) ==
    Append(loc.sent, [ op |-> op, server |-> server,
                       via |-> FetchUsed(passed, opt.fetchFn) ])

\* ---------------------------------------------------------------- auth()

\* auth(provider, options) is called.
StartAuth ==
    /\ pc \in {"idle", "done"}
    /\ calls < MaxCalls
    /\ \E code \in {Undefined, "CODE"} : opt' = [authorizationCode |-> code, fetchFn |-> FALSE]
    /\ pc' = "prm"
    /\ run' = 1
    /\ calls' = calls + 1
    /\ loc' = InitLoc
    /\ trace' = <<>>
    /\ runErrs' = <<>>
    /\ inval' = <<>>
    /\ result' = "PENDING"
    /\ thrown' = Undefined
    /\ UNCHANGED <<store, cap>>

\* The catch of auth() after a recoverable failure of the first run:
\* provider.invalidateCredentials?.(scope), then authInternal again.
Invalidate ==
    /\ pc = "invalidate"
    /\ LET scope == RecoveryScope(runErrs[Len(runErrs)])
           again == /\ pc' = "prm"
                    /\ run' = run + 1
                    /\ loc' = [InitLoc EXCEPT !.recoveredFrom = trace[Len(trace)].op]
                    /\ trace' = <<>>
                    /\ UNCHANGED <<result, thrown>>
       IN  IF cap.invalidateCredentials
           THEN \/ /\ store' = Invalidated(store, scope)
                   /\ inval' = Append(inval, [scope |-> scope, ok |-> TRUE])
                   /\ again
                \/ /\ inval' = Append(inval, [scope |-> scope, ok |-> FALSE])
                   /\ pc' = "done"
                   /\ result' = "THROWN"
                   /\ thrown' = ProviderError
                   /\ UNCHANGED <<store, run, loc, trace>>
           ELSE /\ again
                /\ UNCHANGED <<store, inval>>
    /\ UNCHANGED <<cap, opt, calls, runErrs>>

\* ---------------------------------------------------------------- authInternal()

Frame == UNCHANGED <<cap, opt, calls>>

\* discoverOAuthProtectedResourceMetadata, any failure of which is ignored.
DiscoverProtectedResource ==
    /\ pc = "prm"
    /\ \/ /\ loc' = [loc EXCEPT
                    !.authorizationServerUrl = AuthorizationServerOf(NoRec),
                    !.sent = Sending("discoverOAuthProtectedResourceMetadata",
                                     ServerUrl, TRUE)]
          /\ Continue("resource", <<Ev("discoverOAuthProtectedResourceMetadata", FALSE)>>)
       \/ \E m \in ResourceMetadatas :
            /\ loc' = [loc EXCEPT
                    !.resourceMetadata = m,
                    !.authorizationServerUrl = AuthorizationServerOf(m),
                    !.sent = Sending("discoverOAuthProtectedResourceMetadata",
                                     ServerUrl, TRUE)]
            /\ Continue("resource", <<Ev("discoverOAuthProtectedResourceMetadata", TRUE)>>)
    /\ UNCHANGED store
    /\ Frame

\* Seeded fault: the compatibility check made on the metadata's resource
\* before the provider's validateResourceURL is asked.
SelectResourceChecked ==
    /\ pc = "resource"
    /\ LET defaultResource == ResourceUrlFromServerUrl(ServerUrl)
       IN  IF /\ loc.resourceMetadata # NoRec
              /\ ~CheckResourceAllowed(defaultResource, loc.resourceMetadata.resource)
           THEN /\ Fail(ResourceMismatch, <<Ev("selectResourceURL", FALSE)>>)
                /\ UNCHANGED loc
           ELSE IF cap.validateResourceURL
           THEN \/ /\ loc' = [loc EXCEPT !.resource = defaultResource]
                   /\ Continue("asmeta", <<Ev("validateResourceURL", TRUE)>>)
                \/ /\ Fail(ProviderError, <<Ev("validateResourceURL", FALSE)>>)
                   /\ UNCHANGED loc
           ELSE /\ loc' = [loc EXCEPT !.resource =
                        IF loc.resourceMetadata = NoRec
                        THEN NoRec ELSE loc.resourceMetadata.resource]
                /\ Continue("asmeta", <<Ev("selectResourceURL", TRUE)>>)
    /\ UNCHANGED store
    /\ Frame

\* selectResourceURL(serverUrl, provider, resourceMetadata).
SelectResource ==
    /\ pc = "resource"
    /\ LET defaultResource == ResourceUrlFromServerUrl(ServerUrl)
       IN  IF cap.validateResourceURL
           THEN \/ /\ loc' = [loc EXCEPT !.resource = defaultResource]
                   /\ Continue("asmeta", <<Ev("validateResourceURL", TRUE)>>)
                \/ /\ Fail(ProviderError, <<Ev("validateResourceURL", FALSE)>>)
                   /\ UNCHANGED loc
           ELSE IF loc.resourceMetadata = NoRec
           THEN /\ loc' = [loc EXCEPT !.resource = NoRec]
                /\ Continue("asmeta", <<Ev("selectResourceURL", TRUE)>>)
           ELSE IF ~CheckResourceAllowed(defaultResource, loc.resourceMetadata.resource)
           THEN /\ Fail(ResourceMismatch, <<Ev("selectResourceURL", FALSE)>>)
                /\ UNCHANGED loc
           ELSE /\ loc' = [loc EXCEPT !.resource = loc.resourceMetadata.resource]
                /\ Continue("asmeta", <<Ev("selectResourceURL", TRUE)>>)
    /\ UNCHANGED store
    /\ Frame

\* discoverAuthorizationServerMetadata: no candidate answered but with
\* 4xx, or a candidate answered with a document of its type, or an error.
DiscoverAuthServer ==
    /\ pc = "asmeta"
    /\ LET sent == Sending("discoverAuthorizationServerMetadata",
                           loc.authorizationServerUrl, TRUE)
       IN  \/ /\ loc' = [loc EXCEPT !.metadata = NoRec, !.sent = sent]
              /\ Continue("client", <<Ev("discoverAuthorizationServerMetadata", TRUE)>>)
           \/ \E type \in {"oauth", "oidc"} : \E m \in Metadatas :
                LET d == OnDocument(type, m)
                    lacking == IF "S256" \in m.code_challenge_methods_supported
                               THEN Undefined ELSE type
                IN  IF d.error # Undefined
                    THEN /\ loc' = [loc EXCEPT !.pkceLacking = lacking, !.sent = sent]
                         /\ Fail(d.error, <<Ev("discoverAuthorizationServerMetadata", FALSE)>>)
                    ELSE /\ loc' = [loc EXCEPT !.metadata = d.metadata,
                                                !.pkceLacking = lacking, !.sent = sent]
                         /\ Continue("client",
                                <<Ev("discoverAuthorizationServerMetadata", TRUE)>>)
           \/ \E e \in {DiscoveryError, ParseError, CorsError} :
                /\ Fail(e, <<Ev("discoverAuthorizationServerMetadata", FALSE)>>)
                /\ loc' = [loc EXCEPT !.sent = sent]
    /\ UNCHANGED store
    /\ Frame

\* provider.clientInformation() and the checks on its answer.
LoadClientInformation ==
    /\ pc = "client"
    /\ \/ /\ Fail(ProviderError, <<Ev("clientInformation", FALSE)>>)
          /\ UNCHANGED loc
       \/ LET d == OnClientInformation(store.client, opt.authorizationCode,
                                       cap.saveClientInformation)
              ev == <<Ev("clientInformation", TRUE)>>
          IN  /\ loc' = [loc EXCEPT
                    !.clientInformation = store.client,
                    !.loaded = IF store.client = NoRec THEN "absent" ELSE "present"]
              /\ IF d.next = "throw" THEN Fail(d.error, ev) ELSE Continue(d.next, ev)
    /\ UNCHANGED store
    /\ Frame

\* registerClient(authorizationServerUrl, {metadata, clientMetadata}).
RegisterClient ==
    /\ pc = "register"
    /\ IF loc.metadata # NoRec /\ ~loc.metadata.registration_endpoint
       THEN /\ Fail(Incompatible, <<Ev("registerClient", FALSE)>>)
            /\ UNCHANGED loc
       ELSE \/ /\ Fail(TransportError,
                       <<Ev("fetch:register", FALSE), Ev("registerClient", FALSE)>>)
               /\ loc' = [loc EXCEPT !.sent =
                            Sending("registerClient", loc.authorizationServerUrl, FALSE)]
            \/ \E e \in OAuthErrors \cup {ParseError} :
                 /\ Fail(e, <<Ev("fetch:register", TRUE), Ev("registerClient", FALSE)>>)
                 /\ loc' = [loc EXCEPT !.sent =
                            Sending("registerClient", loc.authorizationServerUrl, FALSE)]
            \/ \E c \in RegisteredClients :
                 /\ loc' = [loc EXCEPT
                        !.fullInformation = c,
                        !.sent = Sending("registerClient", loc.authorizationServerUrl, FALSE)]
                 /\ Continue("saveClient",
                        <<Ev("fetch:register", TRUE), Ev("registerClient", TRUE)>>)
    /\ UNCHANGED store
    /\ Frame

\* Seeded fault: provider.saveClientInformation not awaited, so that its
\* failure does not stop the run.
SaveClientInformationUnawaited ==
    /\ pc = "saveClient"
    /\ \/ /\ store' = [store EXCEPT !.client = loc.fullInformation]
          /\ Continue(Branch(opt.authorizationCode), <<Ev("saveClientInformation", TRUE)>>)
       \/ /\ UNCHANGED store
          /\ Continue(Branch(opt.authorizationCode), <<Ev("saveClientInformation", FALSE)>>)
    /\ loc' = [loc EXCEPT !.clientInformation = loc.fullInformation]
    /\ Frame

\* provider.saveClientInformation(fullInformation).
SaveClientInformation ==
    /\ pc = "saveClient"
    /\ \/ /\ store' = [store EXCEPT !.client = loc.fullInformation]
          /\ loc' = [loc EXCEPT !.clientInformation = loc.fullInformation]
          /\ Continue(Branch(opt.authorizationCode), <<Ev("saveClientInformation", TRUE)>>)
       \/ /\ Fail(ProviderError, <<Ev("saveClientInformation", FALSE)>>)
          /\ UNCHANGED <<store, loc>>
    /\ Frame

\* provider.codeVerifier().
LoadCodeVerifier ==
    /\ pc = "verifier"
    /\ \/ /\ loc' = [loc EXCEPT !.codeVerifier = store.verifier]
          /\ Continue("exchange", <<Ev("codeVerifier", TRUE)>>)
       \/ /\ Fail(ProviderError, <<Ev("codeVerifier", FALSE)>>)
          /\ UNCHANGED loc
    /\ UNCHANGED store
    /\ Frame

\* The token request a primitive builds: the grant's parameters, the
\* client authentication and the resource indicator.
TokenRequest(grantType, code, verifier, refreshToken, auth, resource) ==
    [ grant_type |-> grantType,
      code |-> code,
      code_verifier |-> verifier,
      refresh_token |-> refreshToken,
      method |-> auth.method,
      callback |-> auth.callback,
      authorization |-> auth.authorization,
      client_id |-> auth.client_id,
      client_secret |-> auth.client_secret,
      resource |-> resource ]

\* exchangeAuthorization(authorizationServerUrl, {...}).
ExchangeAuthorization ==
    /\ pc = "exchange"
    /\ LET op == "exchangeAuthorization"
           auth == ClientAuthentication(cap.addClientAuthentication,
                                        loc.clientInformation, loc.metadata)
           Req(cb) == TokenRequest("authorization_code", opt.authorizationCode,
                                   loc.codeVerifier, Undefined,
                                   [auth EXCEPT !.callback = cb], loc.resource)
           Pre(cb) == IF cb = "completed"
                      THEN <<Ev("addClientAuthentication", TRUE)>> ELSE <<>>
       IN  IF GrantUnsupported(loc.metadata, "authorization_code")
           THEN /\ Fail(Incompatible, <<Ev(op, FALSE)>>)
                /\ UNCHANGED loc
           ELSE \/ /\ cap.addClientAuthentication
                   /\ Fail(ProviderError,
                           <<Ev("addClientAuthentication", FALSE), Ev(op, FALSE)>>)
                   /\ UNCHANGED loc
                \/ /\ auth.error # Undefined
                   /\ Fail(auth.error, <<Ev(op, FALSE)>>)
                   /\ UNCHANGED loc
                \/ /\ auth.error = Undefined
                   /\ \E cb \in CallbackAtRequest(auth) :
                      \/ /\ loc' = [loc EXCEPT !.request = Req(cb), !.sent = Sending(op, loc.authorizationServerUrl, TRUE), !.authMethod = MethodSelected(auth)]
                         /\ Fail(TransportError,
                                 Pre(cb) \o <<Ev("fetch:token", FALSE), Ev(op, FALSE)>>)
                      \/ \E e \in OAuthErrors \cup {ParseError} :
                           /\ loc' = [loc EXCEPT !.request = Req(cb), !.sent = Sending(op, loc.authorizationServerUrl, TRUE), !.authMethod = MethodSelected(auth)]
                           /\ Fail(e, Pre(cb) \o <<Ev("fetch:token", TRUE), Ev(op, FALSE)>>)
                      \/ \E t \in TokenResponses :
                           /\ loc' = [loc EXCEPT !.request = Req(cb), !.sent = Sending(op, loc.authorizationServerUrl, TRUE), !.authMethod = MethodSelected(auth), !.response = t,
                                                  !.newTokens = t]
                           /\ Continue("saveTokens",
                                 Pre(cb) \o <<Ev("fetch:token", TRUE), Ev(op, TRUE)>>)
    /\ UNCHANGED store
    /\ Frame

\* Seeded fault: provider.saveTokens not awaited after the exchange.
SaveTokensUnawaited ==
    /\ pc = "saveTokens"
    /\ \/ /\ store' = [store EXCEPT !.tokens = loc.newTokens]
          /\ Return("AUTHORIZED", <<Ev("saveTokens", TRUE)>>)
       \/ /\ UNCHANGED store
          /\ Return("AUTHORIZED", <<Ev("saveTokens", FALSE)>>)
    /\ UNCHANGED loc
    /\ Frame

\* provider.saveTokens(tokens) after the exchange, then return "AUTHORIZED".
SaveTokens ==
    /\ pc = "saveTokens"
    /\ \/ /\ store' = [store EXCEPT !.tokens = loc.newTokens]
          /\ Return("AUTHORIZED", <<Ev("saveTokens", TRUE)>>)
       \/ /\ Fail(ProviderError, <<Ev("saveTokens", FALSE)>>)
          /\ UNCHANGED store
    /\ UNCHANGED loc
    /\ Frame

\* provider.tokens() and the test of tokens?.refresh_token.
LoadTokens ==
    /\ pc = "tokens"
    /\ \/ /\ loc' = [loc EXCEPT !.tokens = store.tokens]
          /\ Continue(IF HasRefreshToken(store.tokens) THEN "refresh" ELSE "state",
                      <<Ev("tokens", TRUE)>>)
       \/ /\ Fail(ProviderError, <<Ev("tokens", FALSE)>>)
          /\ UNCHANGED loc
    /\ UNCHANGED store
    /\ Frame

\* refreshAuthorization(authorizationServerUrl, {...}) inside the try.
RefreshAuthorization ==
    /\ pc = "refresh"
    /\ LET op == "refreshAuthorization"
           auth == ClientAuthentication(cap.addClientAuthentication,
                                        loc.clientInformation, loc.metadata)
           Req(cb) == TokenRequest("refresh_token", Undefined, Undefined,
                                   loc.tokens.refresh_token,
                                   [auth EXCEPT !.callback = cb], loc.resource)
           Pre(cb) == IF cb = "completed"
                      THEN <<Ev("addClientAuthentication", TRUE)>> ELSE <<>>
       IN  IF GrantUnsupported(loc.metadata, "refresh_token")
           THEN /\ loc' = [loc EXCEPT !.refreshError = Incompatible]
                /\ RefreshCatch(Incompatible, <<Ev(op, FALSE)>>)
           ELSE \/ /\ cap.addClientAuthentication
                   /\ loc' = [loc EXCEPT !.refreshError = ProviderError]
                   /\ RefreshCatch(ProviderError,
                           <<Ev("addClientAuthentication", FALSE), Ev(op, FALSE)>>)
                \/ /\ auth.error # Undefined
                   /\ loc' = [loc EXCEPT !.refreshError = auth.error]
                   /\ RefreshCatch(auth.error, <<Ev(op, FALSE)>>)
                \/ /\ auth.error = Undefined
                   /\ \E cb \in CallbackAtRequest(auth) :
                      \/ /\ loc' = [loc EXCEPT !.request = Req(cb), !.sent = Sending(op, loc.authorizationServerUrl, FALSE), !.authMethod = MethodSelected(auth),
                                                !.refreshError = TransportError]
                         /\ RefreshCatch(TransportError,
                                 Pre(cb) \o <<Ev("fetch:token", FALSE), Ev(op, FALSE)>>)
                      \/ \E e \in OAuthErrors \cup {ParseError} :
                           /\ loc' = [loc EXCEPT !.request = Req(cb), !.sent = Sending(op, loc.authorizationServerUrl, FALSE), !.authMethod = MethodSelected(auth), !.refreshError = e]
                           /\ RefreshCatch(e,
                                 Pre(cb) \o <<Ev("fetch:token", TRUE), Ev(op, FALSE)>>)
                      \/ \E t \in TokenResponses :
                           /\ loc' = [loc EXCEPT
                                 !.request = Req(cb), !.sent = Sending(op, loc.authorizationServerUrl, FALSE), !.authMethod = MethodSelected(auth),
                                 !.response = t,
                                 !.newTokens = RefreshedTokens(loc.tokens.refresh_token, t)]
                           /\ Continue("saveRefreshed",
                                 Pre(cb) \o <<Ev("fetch:token", TRUE), Ev(op, TRUE)>>)
    /\ UNCHANGED store
    /\ Frame

\* provider.saveTokens(newTokens) inside the try, then return "AUTHORIZED".
SaveRefreshedTokens ==
    /\ pc = "saveRefreshed"
    /\ \/ /\ store' = [store EXCEPT !.tokens = loc.newTokens]
          /\ Return("AUTHORIZED", <<Ev("saveTokens", TRUE)>>)
       \/ /\ RefreshCatch(ProviderError, <<Ev("saveTokens", FALSE)>>)
          /\ UNCHANGED store
    /\ UNCHANGED loc
    /\ Frame

\* provider.state ? await provider.state() : undefined.
GetState ==
    /\ pc = "state"
    /\ IF cap.state
       THEN \/ /\ loc' = [loc EXCEPT !.state = "st"]
               /\ Continue("start", <<Ev("state", TRUE)>>)
            \/ /\ Fail(ProviderError, <<Ev("state", FALSE)>>)
               /\ UNCHANGED loc
       ELSE /\ Continue("start", <<>>)
            /\ UNCHANGED loc
    /\ UNCHANGED store
    /\ Frame

\* Seeded fault: the challenge put in the URL is that of a second pair.
StartAuthorizationTwoPairs ==
    /\ pc = "start"
    /\ LET op == "startAuthorization"
           md == loc.metadata
       IN  IF md # NoRec /\ "code" \notin md.response_types_supported
           THEN /\ Fail(Incompatible, <<Ev(op, FALSE)>>)
                /\ UNCHANGED loc
           ELSE IF md # NoRec /\ "S256" \notin md.code_challenge_methods_supported
           THEN /\ Fail(Incompatible, <<Ev(op, FALSE)>>)
                /\ UNCHANGED loc
           ELSE \E v \in Verifiers : \E w \in Verifiers :
                 /\ loc' = [loc EXCEPT
                        !.codeVerifier = v,
                        !.authorizationUrl =
                            [ response_type |-> "code",
                              client_id |-> loc.clientInformation.client_id,
                              code_challenge |-> Challenge(w),
                              code_challenge_method |-> "S256",
                              state |-> loc.state,
                              resource |-> loc.resource ]]
                 /\ Continue("saveVerifier", <<Ev(op, TRUE)>>)
    /\ UNCHANGED store
    /\ Frame

\* startAuthorization(authorizationServerUrl, {...}).
StartAuthorization ==
    /\ pc = "start"
    /\ LET op == "startAuthorization"
           md == loc.metadata
       IN  IF md # NoRec /\ "code" \notin md.response_types_supported
           THEN /\ Fail(Incompatible, <<Ev(op, FALSE)>>)
                /\ UNCHANGED loc
           ELSE IF md # NoRec /\ "S256" \notin md.code_challenge_methods_supported
           THEN /\ Fail(Incompatible, <<Ev(op, FALSE)>>)
                /\ UNCHANGED loc
           ELSE \E v \in Verifiers :
                 /\ loc' = [loc EXCEPT
                        !.codeVerifier = v,
                        !.authorizationUrl =
                            [ response_type |-> "code",
                              client_id |-> loc.clientInformation.client_id,
                              code_challenge |-> Challenge(v),
                              code_challenge_method |-> "S256",
                              state |-> loc.state,
                              resource |-> loc.resource ]]
                 /\ Continue("saveVerifier", <<Ev(op, TRUE)>>)
    /\ UNCHANGED store
    /\ Frame

\* Seeded fault: provider.saveCodeVerifier not awaited before the redirect.
SaveCodeVerifierUnawaited ==
    /\ pc = "saveVerifier"
    /\ \/ /\ store' = [store EXCEPT !.verifier = loc.codeVerifier]
          /\ Continue("redirect", <<Ev("saveCodeVerifier", TRUE)>>)
       \/ /\ UNCHANGED store
          /\ Continue("redirect", <<Ev("saveCodeVerifier", FALSE)>>)
    /\ UNCHANGED loc
    /\ Frame

\* provider.saveCodeVerifier(codeVerifier).
SaveCodeVerifier ==
    /\ pc = "saveVerifier"
    /\ \/ /\ store' = [store EXCEPT !.verifier = loc.codeVerifier]
          /\ Continue("redirect", <<Ev("saveCodeVerifier", TRUE)>>)
       \/ /\ Fail(ProviderError, <<Ev("saveCodeVerifier", FALSE)>>)
          /\ UNCHANGED store
    /\ UNCHANGED loc
    /\ Frame

\* provider.redirectToAuthorization(authorizationUrl), then return "REDIRECT".
RedirectToAuthorization ==
    /\ pc = "redirect"
    /\ \/ Return("REDIRECT", <<Ev("redirectToAuthorization", TRUE)>>)
       \/ Fail(ProviderError, <<Ev("redirectToAuthorization", FALSE)>>)
    /\ UNCHANGED <<store, loc>>
    /\ Frame

\* ---------------------------------------------------------------- specification

\* The steps of a call once it is made.
Run ==
    \/ Invalidate
    \/ DiscoverProtectedResource
    \/ SelectResource
    \/ DiscoverAuthServer
    \/ LoadClientInformation
    \/ RegisterClient
    \/ SaveClientInformation
    \/ LoadCodeVerifier
    \/ ExchangeAuthorization
    \/ SaveTokens
    \/ LoadTokens
    \/ RefreshAuthorization
    \/ SaveRefreshedTokens
    \/ GetState
    \/ StartAuthorization
    \/ SaveCodeVerifier
    \/ RedirectToAuthorization

Next == StartAuth \/ Run

Spec == Init /\ [][Next]_vars

\* ---------------------------------------------------------------- auth() called twice

\* The caller invokes auth() again, with no authorization code, on the
\* provider and server of a call that returned "AUTHORIZED".
AuthAgain ==
    /\ pc = "done"
    /\ result = "AUTHORIZED"
    /\ calls < MaxCalls + 1
    /\ opt' = [authorizationCode |-> Undefined, fetchFn |-> FALSE]
    /\ pc' = "prm"
    /\ run' = 1
    /\ calls' = calls + 1
    /\ loc' = InitLoc
    /\ trace' = <<>>
    /\ runErrs' = <<>>
    /\ inval' = <<>>
    /\ result' = "PENDING"
    /\ thrown' = Undefined
    /\ UNCHANGED <<store, cap>>

\* A provider with saveClientInformation and invalidateCredentials and
\* none of the other optional members, holding a code verifier.
InitTwice ==
    /\ Init
    /\ store.verifier = "v1"
    /\ cap.saveClientInformation
    /\ cap.invalidateCredentials
    /\ ~cap.state
    /\ ~cap.addClientAuthentication
    /\ ~cap.validateResourceURL

NextTwice == Next \/ AuthAgain

SpecTwice == InitTwice /\ [][NextTwice]_vars

\* ---------------------------------------------------------------- auth() given a fetchFn

\* auth(provider, {serverUrl, authorizationCode, fetchFn}).
AuthWithFetchFn ==
    /\ pc \in {"idle", "done"}
    /\ calls < MaxCalls
    /\ \E code \in {Undefined, "CODE"} :
            opt' = [authorizationCode |-> code, fetchFn |-> TRUE]
    /\ pc' = "prm"
    /\ run' = 1
    /\ calls' = calls + 1
    /\ loc' = InitLoc
    /\ trace' = <<>>
    /\ runErrs' = <<>>
    /\ inval' = <<>>
    /\ result' = "PENDING"
    /\ thrown' = Undefined
    /\ UNCHANGED <<store, cap>>

NextFetchFn == AuthWithFetchFn \/ Run

\* Providers and stores as in Init, every call being given a fetchFn.
SpecFetchFn == Init /\ [][NextFetchFn]_vars

\* ---------------------------------------------------------------- calls abandoned and made again

\* The caller gives up a call at one of its awaits: nothing of it runs on.
Abandon ==
    /\ pc \notin {"idle", "done"}
    /\ pc' = "done"
    /\ result' = "ABANDONED"
    /\ UNCHANGED <<store, cap, opt, run, calls, loc, trace, runErrs, inval, thrown>>

\* auth() called again on the same provider, however the last call ended.
AuthAnew ==
    /\ pc = "done"
    /\ calls < MaxCalls + 1
    /\ \E code \in {Undefined, "CODE"} :
            opt' = [authorizationCode |-> code, fetchFn |-> FALSE]
    /\ pc' = "prm"
    /\ run' = 1
    /\ calls' = calls + 1
    /\ loc' = InitLoc
    /\ trace' = <<>>
    /\ runErrs' = <<>>
    /\ inval' = <<>>
    /\ result' = "PENDING"
    /\ thrown' = Undefined
    /\ UNCHANGED <<store, cap>>

\* A store that holds tokens only along with client information, and a
\* provider without state, addClientAuthentication and
\* validateResourceURL.
InitAbandon ==
    /\ Init
    /\ store.tokens # NoRec => store.client # NoRec
    /\ ~cap.state
    /\ ~cap.addClientAuthentication
    /\ ~cap.validateResourceURL

NextAbandon == Next \/ Abandon \/ AuthAnew

SpecAbandon == InitAbandon /\ [][NextAbandon]_vars

\* ---------------------------------------------------------------- discoverAuthorizationServerMetadata alone

\* Authorization server URLs: at the root, with a path (and a fragment),
\* with a path and a trailing slash.
AuthorizationServerUrls ==
    { AuthServerUrl, ServerUrl, Url("https://as.example", <<"tenant1", "">>) }

\* A call of fetchFn for candidate i, with or without the headers, and
\* what came of it: a status, or the name of the error thrown.
Probe(i, withHeaders, status, error) ==
    [ op |-> "fetch:metadata", ok |-> error = Undefined, candidate |-> i,
      headers |-> withHeaders, status |-> status, error |-> error ]

InitDiscovery ==
    /\ store = [client |-> NoRec, tokens |-> NoRec, verifier |-> Undefined]
    /\ cap = [ saveClientInformation |-> FALSE, invalidateCredentials |-> FALSE,
               state |-> FALSE, addClientAuthentication |-> FALSE,
               validateResourceURL |-> FALSE ]
    /\ opt = [authorizationCode |-> Undefined, fetchFn |-> FALSE]
    /\ pc = "fetch"
    /\ run = 1
    /\ calls = 1
    /\ \E u \in AuthorizationServerUrls :
            loc = [InitLoc EXCEPT !.authorizationServerUrl = u,
                                  !.urlsToTry = BuildDiscoveryUrls(u),
                                  !.index = 1]
    /\ trace = <<>>
    /\ runErrs = <<>>
    /\ inval = <<>>
    /\ result = "PENDING"
    /\ thrown = Undefined

DiscoveryFrame == UNCHANGED <<store, cap, opt, run, calls, runErrs, inval>>

\* The function throws e, its message naming the candidate it was at.
Throw(e, ev) ==
    /\ pc' = "done"
    /\ result' = "THROWN"
    /\ thrown' = e
    /\ loc' = [loc EXCEPT !.named = loc.urlsToTry[loc.index].url]
    /\ trace' = Append(trace, ev)

\* The loop body after fetchWithCorsRetry returned: throw, read the body,
\* go to the next candidate, or leave the loop and return undefined.
AfterFetch(response, ev) ==
    LET d == OnResponse(response)
    IN  CASE d.next = "throw" -> Throw(d.error, ev)
          [] d.next = "body" ->
                /\ pc' = "body"
                /\ loc' = [loc EXCEPT !.response = response]
                /\ trace' = Append(trace, ev)
                /\ UNCHANGED <<result, thrown>>
          [] d.next = "continue" /\ loc.index < Len(loc.urlsToTry) ->
                /\ pc' = "fetch"
                /\ loc' = [loc EXCEPT !.index = loc.index + 1]
                /\ trace' = Append(trace, ev)
                /\ UNCHANGED <<result, thrown>>
          [] OTHER ->
                /\ pc' = "done"
                /\ result' = "RETURNED"
                /\ loc' = [loc EXCEPT !.metadata = NoRec]
                /\ trace' = Append(trace, ev)
                /\ UNCHANGED thrown

\* What the loop does once fetchFn threw e in fetchWithCorsRetry.
AfterFetchError(e, withHeaders) ==
    LET ev == Probe(loc.index, withHeaders, 0, e)
        d == OnFetchError(e, withHeaders)
    IN  CASE d = "retry" ->
                /\ pc' = "retry"
                /\ trace' = Append(trace, ev)
                /\ UNCHANGED <<loc, result, thrown>>
          [] d = "undefined" -> AfterFetch(NoRec, ev)
          [] OTHER -> Throw(e, ev)

\* fetchWithCorsRetry(url, headers, fetchFn): fetchFn(url, { headers }).
FetchWithHeaders ==
    /\ pc = "fetch"
    /\ \/ \E st \in Statuses :
            AfterFetch([status |-> st], Probe(loc.index, TRUE, st, Undefined))
       \/ \E e \in FetchErrors : AfterFetchError(e, TRUE)
    /\ DiscoveryFrame

\* fetchWithCorsRetry(url, undefined, fetchFn), after a TypeError.
FetchWithoutHeaders ==
    /\ pc = "retry"
    /\ \/ \E st \in Statuses :
            AfterFetch([status |-> st], Probe(loc.index, FALSE, st, Undefined))
       \/ \E e \in FetchErrors : AfterFetchError(e, FALSE)
    /\ DiscoveryFrame

\* The schema's parse(await response.json()) and, for an OIDC document,
\* the S256 check.
ReadDocument ==
    /\ pc = "body"
    /\ LET type == loc.urlsToTry[loc.index].type
           read == [op |-> "json", ok |-> TRUE]
       IN  \/ Throw(ParseError, [read EXCEPT !.ok = FALSE])
           \/ \E m \in Metadatas :
                LET d == OnDocument(type, m)
                    lacking == IF "S256" \in m.code_challenge_methods_supported
                               THEN Undefined ELSE type
                IN  IF d.error # Undefined
                    THEN /\ pc' = "done"
                         /\ result' = "THROWN"
                         /\ thrown' = d.error
                         /\ loc' = [loc EXCEPT !.named = loc.urlsToTry[loc.index].url,
                                                !.pkceLacking = lacking]
                         /\ trace' = Append(trace, read)
                    ELSE /\ pc' = "done"
                         /\ result' = "RETURNED"
                         /\ loc' = [loc EXCEPT !.metadata = d.metadata,
                                                !.pkceLacking = lacking]
                         /\ trace' = Append(trace, read)
                         /\ UNCHANGED thrown
    /\ DiscoveryFrame

NextDiscovery == FetchWithHeaders \/ FetchWithoutHeaders \/ ReadDocument

SpecDiscovery == InitDiscovery /\ [][NextDiscovery]_vars

\* ---------------------------------------------------------------- discoverOAuthProtectedResourceMetadata alone

\* Server URLs: at the root, with a path (and a fragment), with a path and
\* a trailing slash; and opts.resourceMetadataUrl, absent or given.
ResourceServerUrls ==
    { Url("https://srv.example", <<>>), ServerUrl,
      Url("https://srv.example", <<"mcp", "">>) }

ResourceMetadataUrls ==
    { NoRec, Url("https://meta.example", <<"resource-metadata">>) }

InitResource ==
    /\ store = [client |-> NoRec, tokens |-> NoRec, verifier |-> Undefined]
    /\ cap = [ saveClientInformation |-> FALSE, invalidateCredentials |-> FALSE,
               state |-> FALSE, addClientAuthentication |-> FALSE,
               validateResourceURL |-> FALSE ]
    /\ opt = [authorizationCode |-> Undefined, fetchFn |-> FALSE]
    /\ pc = "prm:fetch"
    /\ run = 1
    /\ calls = 1
    /\ \E u \in ResourceServerUrls : \E mu \in ResourceMetadataUrls :
            loc = [InitLoc EXCEPT
                    !.issuer = u,
                    !.metadataUrl = mu,
                    !.urlsToTry = << [url |-> ResourceDiscoveryUrl(u, mu),
                                      type |-> "resource"] >>,
                    !.index = 1]
    /\ trace = <<>>
    /\ runErrs = <<>>
    /\ inval = <<>>
    /\ result = "PENDING"
    /\ thrown = Undefined

\* discoverOAuthProtectedResourceMetadata throws e.
ResourceThrows(e, ev) ==
    /\ pc' = "done"
    /\ result' = "THROWN"
    /\ thrown' = e
    /\ trace' = Append(trace, ev)
    /\ UNCHANGED loc

\* discoverMetadataWithFallback after tryMetadataDiscovery returned: the
\* request of rootUrl, or the return to
\* discoverOAuthProtectedResourceMetadata and its checks of the response.
AfterTry(response, ev) ==
    IF /\ loc.index = 1
       /\ loc.metadataUrl = NoRec
       /\ ShouldAttemptFallback(response, loc.issuer.path)
    THEN /\ pc' = "prm:fetch"
         /\ loc' = [loc EXCEPT
                    !.index = 2,
                    !.urlsToTry = Append(@, [url |-> RootUrl(loc.issuer),
                                             type |-> "resource"])]
         /\ trace' = Append(trace, ev)
         /\ UNCHANGED <<result, thrown>>
    ELSE LET d == OnResourceResponse(response)
         IN  IF d.next = "throw"
             THEN ResourceThrows(d.error, ev)
             ELSE /\ pc' = "prm:body"
                  /\ loc' = [loc EXCEPT !.response = response]
                  /\ trace' = Append(trace, ev)
                  /\ UNCHANGED <<result, thrown>>

\* What follows once fetchFn threw e in fetchWithCorsRetry.
AfterTryError(e, withHeaders) ==
    LET ev == Probe(loc.index, withHeaders, 0, e)
        d == OnFetchError(e, withHeaders)
    IN  CASE d = "retry" ->
                /\ pc' = "prm:retry"
                /\ trace' = Append(trace, ev)
                /\ UNCHANGED <<loc, result, thrown>>
          [] d = "undefined" -> AfterTry(NoRec, ev)
          [] OTHER -> ResourceThrows(e, ev)

\* tryMetadataDiscovery(url, protocolVersion, fetchFn): the request with
\* the MCP-Protocol-Version header.
TryMetadataDiscovery ==
    /\ pc = "prm:fetch"
    /\ \/ \E st \in Statuses :
            AfterTry([status |-> st], Probe(loc.index, TRUE, st, Undefined))
       \/ \E e \in FetchErrors : AfterTryError(e, TRUE)
    /\ DiscoveryFrame

\* Its repetition without headers, after a TypeError.
TryMetadataDiscoveryAgain ==
    /\ pc = "prm:retry"
    /\ \/ \E st \in Statuses :
            AfterTry([status |-> st], Probe(loc.index, FALSE, st, Undefined))
       \/ \E e \in FetchErrors : AfterTryError(e, FALSE)
    /\ DiscoveryFrame

\* OAuthProtectedResourceMetadataSchema.parse(await response.json()).
ReadResourceMetadata ==
    /\ pc = "prm:body"
    /\ LET read == [op |-> "json", ok |-> TRUE]
       IN  \/ ResourceThrows(ParseError, [read EXCEPT !.ok = FALSE])
           \/ \E m \in ResourceMetadatas :
                /\ pc' = "done"
                /\ result' = "RETURNED"
                /\ loc' = [loc EXCEPT !.resourceMetadata = m]
                /\ trace' = Append(trace, read)
                /\ UNCHANGED thrown
    /\ DiscoveryFrame

NextResource ==
    TryMetadataDiscovery \/ TryMetadataDiscoveryAgain \/ ReadResourceMetadata

SpecResource == InitResource /\ [][NextResource]_vars

\* ---------------------------------------------------------------- termination

\* Every request and every provider operation returns or throws in the
\* end: a step that can be taken is taken.  The caller is under no
\* obligation to call auth().
LiveAuth == InitAbandon /\ [][Next]_vars /\ WF_vars(Run)

LiveResource == SpecResource /\ WF_vars(NextResource)

LiveDiscovery == SpecDiscovery /\ WF_vars(NextDiscovery)

\* ---------------------------------------------------------------- client authentication alone

\* Every OAuthClientInformation as to its secret: none, the empty string,
\* a non-empty one.
ClientInformations ==
    StoredClients \cup { [client_id |-> "abc", client_secret |-> ""] }

\* The method names a server may list, one of them unknown to the module.
AuthMethodNames ==
    { "client_secret_basic", "client_secret_post", "none", "private_key_jwt" }

\* A token request is being built for some client information and some
\* metadata, absent or with any list of methods.
InitClientAuth ==
    /\ store = [client |-> NoRec, tokens |-> NoRec, verifier |-> Undefined]
    /\ cap = [ saveClientInformation |-> FALSE, invalidateCredentials |-> FALSE,
               state |-> FALSE, addClientAuthentication |-> FALSE,
               validateResourceURL |-> FALSE ]
    /\ opt = [authorizationCode |-> Undefined, fetchFn |-> FALSE]
    /\ pc = "select"
    /\ run = 1
    /\ calls = 1
    /\ \E ci \in ClientInformations :
       \E md \in {NoRec} \cup
                  { [MdFull EXCEPT !.token_endpoint_auth_methods_supported = l] :
                        l \in SUBSET AuthMethodNames } :
            loc = [InitLoc EXCEPT !.clientInformation = ci, !.metadata = md]
    /\ trace = <<>>
    /\ runErrs = <<>>
    /\ inval = <<>>
    /\ result = "PENDING"
    /\ thrown = Undefined

\* metadata?.token_endpoint_auth_methods_supported ?? []
SupportedMethods(metadata) ==
    IF metadata = NoRec THEN {} ELSE metadata.token_endpoint_auth_methods_supported

\* const authMethod = selectClientAuthMethod(clientInformation, supportedMethods)
SelectMethod ==
    /\ pc = "select"
    /\ loc' = [loc EXCEPT !.authMethod =
                SelectClientAuthMethod(loc.clientInformation, SupportedMethods(loc.metadata))]
    /\ pc' = "apply"
    /\ UNCHANGED <<store, cap, opt, run, calls, trace, runErrs, inval, result, thrown>>

\* applyClientAuthentication(authMethod, clientInformation, headers, params)
ApplyMethod ==
    /\ pc = "apply"
    /\ LET auth == ApplyClientAuthentication(loc.authMethod, loc.clientInformation)
       IN  IF auth.error # Undefined
           THEN /\ result' = "THROWN"
                /\ thrown' = auth.error
                /\ UNCHANGED loc
           ELSE /\ loc' = [loc EXCEPT !.request =
                        TokenRequest("refresh_token", Undefined, Undefined, "R1",
                                     auth, loc.resource)]
                /\ result' = "APPLIED"
                /\ UNCHANGED thrown
    /\ pc' = "done"
    /\ UNCHANGED <<store, cap, opt, run, calls, trace, runErrs, inval>>

NextClientAuth == SelectMethod \/ ApplyMethod

SpecClientAuth == InitClientAuth /\ [][NextClientAuth]_vars

\* ---------------------------------------------------------------- properties

\* The positions of the run's trace.
Pos == DOMAIN trace

Did(op) == \E i \in Pos : trace[i].op = op

Completed(op) == \E i \in Pos : trace[i] = Ev(op, TRUE)

LastError == runErrs[Len(runErrs)]

\* The first inner run has failed and auth() has dealt with the failure.
FirstFailureHandled == Len(runErrs) >= 1 /\ pc # "invalidate"

\* No invalidation, no second run, and e is what the caller gets.
Propagated(e) ==
    /\ inval = <<>>
    /\ run = 1
    /\ pc = "done"
    /\ result = "THROWN"
    /\ thrown = e

\* C1 as stated: after a failure of the first inner run, invalid_client and
\* unauthorized_client have invalidateCredentials('all') invoked and the
\* flow run again, invalid_grant has invalidateCredentials('tokens') invoked
\* and the flow run again, and any other error is propagated unchanged with
\* no invalidation and no second run.
C1_AsStated ==
    FirstFailureHandled =>
        LET e == runErrs[1]
        IN  IF e \in {"InvalidClientError", "UnauthorizedClientError"}
            THEN Len(inval) = 1 /\ inval[1].scope = "all" /\ run = 2
            ELSE IF e = "InvalidGrantError"
            THEN Len(inval) = 1 /\ inval[1].scope = "tokens" /\ run = 2
            ELSE Propagated(e)

\* The recovery for scope s: invalidateCredentials(s) is invoked exactly when
\* the provider implements it, and the flow runs again unless that
\* invocation throws, in which case the call throws the provider's error.
Recovered(s) ==
    /\ Len(inval) = (IF cap.invalidateCredentials THEN 1 ELSE 0)
    /\ \A i \in DOMAIN inval : inval[i].scope = s
    /\ IF inval # <<>> /\ ~inval[1].ok
       THEN run = 1 /\ pc = "done" /\ result = "THROWN" /\ thrown = ProviderError
       ELSE run = 2

\* C1 amended: as C1, with invalidateCredentials invoked only on a provider
\* that implements it, and the second run started once that invocation, if
\* any, has completed.
C1_RecoveryByErrorKind ==
    FirstFailureHandled =>
        LET e == runErrs[1]
        IN  IF e \in {"InvalidClientError", "UnauthorizedClientError"}
            THEN Recovered("all")
            ELSE IF e = "InvalidGrantError"
            THEN Recovered("tokens")
            ELSE Propagated(e)

C1_Witness ==
    /\ run = 2
    /\ runErrs[1] = "UnauthorizedClientError"
    /\ inval = <<[scope |-> "all", ok |-> TRUE]>>

\* C2: an auth() call runs the inner flow at most twice and invokes
\* invalidateCredentials at most once; a failure of the second run is thrown
\* to the caller as it is.
C2_RecoveryAtMostOnce ==
    /\ run <= 2
    /\ Len(runErrs) <= run
    /\ Len(inval) <= 1
    /\ Len(runErrs) = 2 =>
            /\ run = 2
            /\ pc = "done"
            /\ result = "THROWN"
            /\ thrown = runErrs[2]

C2_Witness ==
    /\ Len(runErrs) = 2
    /\ runErrs[2] = "InvalidGrantError"
    /\ Len(inval) = 1
    /\ thrown = "InvalidGrantError"

\* C3: "AUTHORIZED" is returned only by a run in which a token request
\* succeeded and provider.saveTokens then completed with the tokens that
\* request returned.
C3_TokensSavedBeforeAuthorized ==
    result = "AUTHORIZED" =>
        /\ Len(trace) >= 3
        /\ trace[Len(trace)] = Ev("saveTokens", TRUE)
        /\ trace[Len(trace) - 1].op \in {"exchangeAuthorization", "refreshAuthorization"}
        /\ trace[Len(trace) - 1].ok
        /\ trace[Len(trace) - 2] = Ev("fetch:token", TRUE)
        /\ loc.newTokens # NoRec
        /\ store.tokens = loc.newTokens

C3_Witness ==
    /\ result = "AUTHORIZED"
    /\ Completed("refreshAuthorization")
    /\ store.tokens = [access_token |-> "A2", refresh_token |-> "R1"]

\* C4: provider.redirectToAuthorization is invoked only right after
\* provider.saveCodeVerifier has completed, and "REDIRECT" is returned only
\* after both have completed, the stored verifier being the generated one.
C4_VerifierSavedBeforeRedirect ==
    /\ \A j \in Pos :
            trace[j].op = "redirectToAuthorization" =>
                j > 1 /\ trace[j - 1] = Ev("saveCodeVerifier", TRUE)
    /\ pc = "redirect" => store.verifier = loc.codeVerifier
    /\ result = "REDIRECT" =>
            /\ trace[Len(trace)] = Ev("redirectToAuthorization", TRUE)
            /\ store.verifier = loc.codeVerifier
            /\ loc.codeVerifier \in Verifiers

C4_Witness ==
    /\ result = "REDIRECT"
    /\ store.verifier = "v2"

\* The client_id the core itself put on a token request: in the Basic
\* credentials or in the body (none when the provider authenticates).
RequestClientId(req) ==
    IF req.method = "client_secret_basic"
    THEN req.authorization.credentials[1]
    ELSE req.client_id

\* The steps of a run that rely on the client information.
UsesClient ==
    { "tokens", "addClientAuthentication", "fetch:token", "refreshAuthorization",
      "exchangeAuthorization", "saveTokens", "state", "startAuthorization",
      "saveCodeVerifier", "redirectToAuthorization" }

\* C5: in a run that registers the client, provider.saveClientInformation
\* completes with the registered record right after the registration and
\* before any token request, startAuthorization or redirect of the run, and
\* those steps use the client_id of the record just persisted.
C5_RegistrationSavedBeforeUse ==
    \A i \in Pos :
        trace[i] = Ev("registerClient", TRUE) =>
            /\ i < Len(trace) => trace[i + 1].op = "saveClientInformation"
            /\ (pc \notin {"saveClient", "done", "invalidate"}
                    \/ \E j \in Pos : j > i /\ trace[j].op \in UsesClient) =>
                    /\ trace[i + 1] = Ev("saveClientInformation", TRUE)
                    /\ store.client = loc.fullInformation
                    /\ loc.clientInformation = loc.fullInformation
            /\ (loc.request # NoRec /\ loc.request.method # "custom") =>
                    RequestClientId(loc.request) = store.client.client_id
            /\ loc.authorizationUrl # NoRec =>
                    loc.authorizationUrl.client_id = store.client.client_id

C5_Witness ==
    /\ Completed("registerClient")
    /\ Completed("refreshAuthorization")
    /\ loc.request.client_id = "reg1"
    /\ store.client.client_id = "reg1"

\* What a run may not do without client information.
Writes ==
    { "saveClientInformation", "saveTokens", "saveCodeVerifier",
      "redirectToAuthorization" }

Requests == { "fetch:register", "fetch:token" }

\* C6: when provider.clientInformation() answers nothing and an
\* authorization code was supplied, the run throws the error that existing
\* client information is required, having sent neither a registration nor a
\* token request and having written nothing through the provider.
C6_CodeWithoutClientFails ==
    (loc.loaded = "absent" /\ opt.authorizationCode # Undefined) =>
        /\ pc = "done"
        /\ result = "THROWN"
        /\ thrown = StateMissing
        /\ LastError = StateMissing
        /\ trace[Len(trace)] = Ev("clientInformation", TRUE)
        /\ \A i \in Pos : trace[i].op \notin Writes \cup Requests \cup {"registerClient"}

C6_Witness ==
    /\ loc.loaded = "absent"
    /\ opt.authorizationCode = "CODE"
    /\ run = 2
    /\ thrown = StateMissing

\* C7: when client information is absent, no authorization code was
\* supplied and the provider has no saveClientInformation, the run throws
\* the error that client information must be saveable, and no registration
\* request is sent.
C7_UnsaveableRegistrationFails ==
    (loc.loaded = "absent" /\ opt.authorizationCode = Undefined
        /\ ~cap.saveClientInformation) =>
        /\ pc = "done"
        /\ result = "THROWN"
        /\ thrown = NotSaveable
        /\ LastError = NotSaveable
        /\ trace[Len(trace)] = Ev("clientInformation", TRUE)
        /\ \A i \in Pos : trace[i].op \notin {"fetch:register", "registerClient"}

C7_Witness ==
    /\ loc.loaded = "absent"
    /\ opt.authorizationCode = Undefined
    /\ ~cap.saveClientInformation
    /\ thrown = NotSaveable

\* C8: a run with an authorization code and existing client information
\* loads the verifier, sends at most one token request, of grant
\* authorization_code, and returns "AUTHORIZED" only after that request
\* succeeded and the tokens were saved; it never consults provider.tokens(),
\* refreshes, registers, saves a verifier or redirects.
C8_CodeExchangeOnly ==
    (loc.loaded = "present" /\ opt.authorizationCode # Undefined) =>
        /\ \A i \in Pos :
                trace[i].op \notin
                    { "tokens", "refreshAuthorization", "fetch:register", "registerClient",
                      "saveClientInformation", "state", "startAuthorization",
                      "saveCodeVerifier", "redirectToAuthorization" }
        /\ Cardinality({i \in Pos : trace[i].op = "fetch:token"}) <= 1
        /\ loc.request # NoRec =>
                /\ loc.request.grant_type = "authorization_code"
                /\ loc.request.code = opt.authorizationCode
                /\ loc.request.code_verifier = loc.codeVerifier
        /\ result \in {"PENDING", "AUTHORIZED", "THROWN"}
        /\ result = "AUTHORIZED" =>
                /\ \E i \in Pos : \E j \in Pos :
                        /\ i < j /\ j < Len(trace)
                        /\ trace[i] = Ev("codeVerifier", TRUE)
                        /\ trace[j] = Ev("fetch:token", TRUE)
                /\ Cardinality({i \in Pos : trace[i].op = "fetch:token"}) = 1
                /\ trace[Len(trace)] = Ev("saveTokens", TRUE)
                /\ store.tokens = loc.newTokens

C8_Witness ==
    /\ loc.loaded = "present"
    /\ opt.authorizationCode = "CODE"
    /\ result = "AUTHORIZED"
    /\ loc.request.code_verifier = "v1"

\* The steps of a new authorization.
NewAuthorization ==
    { "state", "startAuthorization", "saveCodeVerifier", "redirectToAuthorization" }

\* C9 as stated: without an authorization code, stored tokens with a
\* refresh token make the run attempt a refresh, and a refresh that succeeds
\* has its tokens persisted and "AUTHORIZED" returned with no step of a new
\* authorization; tokens that are absent or lack a refresh token make the
\* run go to a new authorization without a token request.
C9_RefreshOrNewAuthorization ==
    (opt.authorizationCode = Undefined /\ Completed("tokens")) =>
        IF HasRefreshToken(loc.tokens)
        THEN /\ pc # "refresh" => Did("refreshAuthorization")
             /\ Completed("refreshAuthorization") =>
                    /\ \A i \in Pos : trace[i].op \notin NewAuthorization
                    /\ pc \in {"saveRefreshed", "done"}
                    /\ pc = "done" =>
                            /\ result = "AUTHORIZED"
                            /\ store.tokens = loc.newTokens
        ELSE /\ ~Did("fetch:token")
             /\ ~Did("refreshAuthorization")
             /\ trace[Len(trace)].op = "tokens" => pc \in {"state", "start"}

\* The part of C9 that the code keeps: a refresh that succeeded and whose
\* tokens provider.saveTokens persisted returns "AUTHORIZED" with no step of
\* a new authorization, and without a refresh token no token request is sent.
C9_WhenTokensAreSaved ==
    (opt.authorizationCode = Undefined /\ Completed("tokens")) =>
        IF HasRefreshToken(loc.tokens)
        THEN /\ pc # "refresh" => Did("refreshAuthorization")
             /\ (Completed("refreshAuthorization") /\ Completed("saveTokens")) =>
                    /\ \A i \in Pos : trace[i].op \notin NewAuthorization
                    /\ pc = "done"
                    /\ result = "AUTHORIZED"
                    /\ store.tokens = loc.newTokens
        ELSE /\ ~Did("fetch:token")
             /\ ~Did("refreshAuthorization")
             /\ trace[Len(trace)].op = "tokens" => pc \in {"state", "start"}

\* A refresh succeeded, saving its tokens failed, and the run went on to
\* redirect the user.
C9_SaveFailureRedirects ==
    /\ Completed("refreshAuthorization")
    /\ \E i \in Pos : trace[i] = Ev("saveTokens", FALSE)
    /\ result = "REDIRECT"

\* The OAuthError classes other than ServerError.
OAuthNotServer ==
    { "InvalidClientError", "UnauthorizedClientError", "InvalidGrantError",
      "InvalidRequestError" }

\* C10: a failed refresh attempt whose error is a ServerError or no
\* OAuthError is swallowed: saveTokens is not called and the same run goes
\* on to a new authorization, returning "REDIRECT" unless one of its steps
\* throws.  Any other OAuthError is thrown out of the run there and then, so
\* that no verifier is saved and no redirect is invoked in that run.
C10_RefreshFailure ==
    \A i \in Pos :
        trace[i] = Ev("refreshAuthorization", FALSE) =>
            IF loc.refreshError \notin OAuthNotServer
            THEN /\ ~Did("saveTokens")
                 /\ i = Len(trace) => pc \in {"state", "start"}
                 /\ \A j \in Pos : j > i => trace[j].op \in NewAuthorization
                 /\ pc \in {"done", "invalidate"} =>
                        \/ result = "REDIRECT"
                        \/ /\ Len(trace) > i
                           /\ ~trace[Len(trace)].ok
                           /\ Len(runErrs) >= 1
                           /\ LastError \in {ProviderError, Incompatible}
            ELSE /\ i = Len(trace)
                 /\ pc \in {"done", "invalidate"}
                 /\ LastError = loc.refreshError
                 /\ ~Did("saveCodeVerifier")
                 /\ ~Did("redirectToAuthorization")
                 /\ ~Did("saveTokens")

C10_Witness ==
    /\ \E i \in Pos : trace[i] = Ev("refreshAuthorization", FALSE)
    /\ loc.refreshError = "ServerError"
    /\ result = "REDIRECT"

\* C11: the tokens refreshAuthorization returns for a 2xx response R, sent
\* the previously held refresh token P, have the refresh_token of R when R
\* has one and P otherwise, and the access_token of R; they are the tokens
\* auth() persists before it returns "AUTHORIZED".
C11_RefreshTokenKeptOrReplaced ==
    Completed("refreshAuthorization") =>
        LET R == loc.response
            P == loc.tokens.refresh_token
        IN  /\ loc.request.grant_type = "refresh_token"
            /\ loc.request.refresh_token = P
            /\ loc.newTokens.access_token = R.access_token
            /\ loc.newTokens.refresh_token =
                    (IF R.refresh_token # Undefined THEN R.refresh_token ELSE P)
            /\ result = "AUTHORIZED" => store.tokens = loc.newTokens

C11_Witness ==
    /\ result = "AUTHORIZED"
    /\ loc.tokens = [access_token |-> "A1", refresh_token |-> "R1"]
    /\ loc.response = [access_token |-> "A2", refresh_token |-> "R2"]
    /\ store.tokens = [access_token |-> "A2", refresh_token |-> "R2"]

\* The first run of the call ended with its refresh request answered
\* invalid_grant, and the present run is the one auth() started after it.
RetriedAfterInvalidGrant ==
    /\ loc.recoveredFrom = "refreshAuthorization"
    /\ runErrs[1] = "InvalidGrantError"

\* C12 as stated: after a refresh answered invalid_grant the orchestrator
\* has invalidated scope 'tokens', the flow it re-enters sends no token
\* request, and the call does not end with an OAuth error.
C12_AsStated ==
    RetriedAfterInvalidGrant =>
        /\ inval = <<[scope |-> "tokens", ok |-> TRUE]>>
        /\ \A i \in Pos : trace[i].op \notin {"fetch:token", "refreshAuthorization"}
        /\ result = "THROWN" =>
                thrown \notin { "InvalidClientError", "UnauthorizedClientError",
                                "InvalidGrantError", "InvalidRequestError", "ServerError" }

\* C12 amended: invalidateCredentials('tokens') is invoked when the provider
\* implements it; if it throws, the call throws its error with no second
\* run; once it has completed, the second run finds no tokens, sends no
\* token or registration request, saves no tokens, and returns "REDIRECT"
\* unless one of its steps throws an error that is no OAuth error.  On a
\* provider without invalidateCredentials nothing is invalidated and the
\* second run starts with the tokens as they were.
C12_InvalidGrantRecovery ==
    /\ (/\ run = 1
         /\ pc = "done"
         /\ trace # <<>>
         /\ trace[Len(trace)] = Ev("refreshAuthorization", FALSE)
         /\ loc.refreshError = "InvalidGrantError") =>
            /\ cap.invalidateCredentials
            /\ inval = <<[scope |-> "tokens", ok |-> FALSE]>>
            /\ result = "THROWN"
            /\ thrown = ProviderError
    /\ RetriedAfterInvalidGrant =>
            /\ run = 2
            /\ opt.authorizationCode = Undefined
            /\ IF cap.invalidateCredentials
               THEN /\ inval = <<[scope |-> "tokens", ok |-> TRUE]>>
                    /\ store.tokens = NoRec
                    /\ store.client # NoRec
                    /\ Completed("tokens") => loc.tokens = NoRec
                    /\ \A i \in Pos :
                            trace[i].op \notin
                                { "fetch:token", "refreshAuthorization", "saveTokens",
                                  "fetch:register", "registerClient" }
                    /\ result \in {"PENDING", "REDIRECT", "THROWN"}
                    /\ result = "THROWN" =>
                            /\ ~trace[Len(trace)].ok
                            /\ thrown \in { ProviderError, ResourceMismatch, DiscoveryError,
                                             CorsError, ParseError, IncompatibleOidc,
                                             Incompatible }
               ELSE /\ inval = <<>>
                    /\ pc \in {"prm", "resource", "asmeta", "client", "tokens"} =>
                            HasRefreshToken(store.tokens)

C12_Witness ==
    /\ RetriedAfterInvalidGrant
    /\ inval = <<[scope |-> "tokens", ok |-> TRUE]>>
    /\ Completed("tokens")
    /\ result = "REDIRECT"

\* The operations of a run that send at least one HTTP request: both
\* discovery functions start with a request, whatever comes of it.
SendsRequest ==
    { "discoverOAuthProtectedResourceMetadata", "discoverAuthorizationServerMetadata",
      "fetch:register", "fetch:token" }

\* The call under way follows one that returned "AUTHORIZED".
SecondCall == calls = MaxCalls + 1

\* C13 as stated: an auth() call with no authorization code that follows
\* a call that returned "AUTHORIZED", on the same provider and server,
\* sends no HTTP request.
C13_SecondCallNoNetwork ==
    SecondCall => \A i \in Pos : trace[i].op \notin SendsRequest

\* The second call has run both discoveries and sent a refresh request.
C13_SecondCallRefreshes ==
    /\ SecondCall
    /\ Did("discoverOAuthProtectedResourceMetadata")
    /\ Completed("discoverAuthorizationServerMetadata")
    /\ \E i \in Pos : trace[i] = Ev("fetch:token", TRUE)
    /\ loc.request.refresh_token = "R2"

\* The inputs and the output of the selection under way.
Selected == pc \in {"apply", "done"} /\ loc.authMethod # Undefined

SecretGiven == loc.clientInformation.client_secret

Listed == SupportedMethods(loc.metadata)

\* C14 as stated: the selected method is never client_secret_basic for a
\* client that has no secret to send, a client with no secret gets "none",
\* and applying the selected method never throws the missing-secret error.
C14_SelectedMethodApplies ==
    Selected =>
        /\ SecretGiven = Undefined => loc.authMethod = "none"
        /\ loc.authMethod = "client_secret_basic" => SecretGiven # Undefined
        /\ thrown # "client_secret_basic authentication requires a client_secret"

\* What the code keeps of C14: a client whose client_secret is undefined
\* is given "none", and the missing-secret error is thrown for no client
\* but one whose client_secret is the empty string.
C14_UndefinedSecretGetsNone ==
    Selected =>
        /\ SecretGiven = Undefined => loc.authMethod = "none" /\ result # "THROWN"
        /\ SecretGiven = "shh" => result # "THROWN"

\* A client whose secret is the empty string is given client_secret_basic,
\* which then cannot be applied.
C14_EmptySecretBasicFails ==
    /\ pc = "done"
    /\ SecretGiven = ""
    /\ Listed = {"client_secret_basic", "none"}
    /\ loc.authMethod = "client_secret_basic"
    /\ result = "THROWN"
    /\ thrown = "client_secret_basic authentication requires a client_secret"

\* C15: selectClientAuthMethod is the decision table read from the top,
\* the first matching row deciding, a secret being a client_secret that is
\* not undefined: an empty list gives post with a secret and none without;
\* a list with basic, and a secret, give basic; else a list with post, and a
\* secret, give post; else a list with none gives none; anything else gives
\* post with a secret and none without.
C15_DecisionTable ==
    Selected =>
        LET secret == SecretGiven # Undefined
            m == loc.authMethod
            fallback == IF secret THEN "client_secret_post" ELSE "none"
            row == IF Listed = {} THEN 1
                   ELSE IF secret /\ "client_secret_basic" \in Listed THEN 2
                   ELSE IF secret /\ "client_secret_post" \in Listed THEN 3
                   ELSE IF "none" \in Listed THEN 4
                   ELSE 5
        IN  /\ row = 1 => m = fallback
            /\ row = 2 => m = "client_secret_basic"
            /\ row = 3 => m = "client_secret_post"
            /\ row = 4 => m = "none"
            /\ row = 5 => m = fallback
            /\ m \in {"client_secret_basic", "client_secret_post", "none"}

C15_Witness ==
    /\ Selected
    /\ SecretGiven = "shh"
    /\ Listed = {"client_secret_post", "none", "private_key_jwt"}
    /\ loc.authMethod = "client_secret_post"

\* C16: with a provider that has addClientAuthentication, the token
\* request of exchangeAuthorization and of refreshAuthorization carries no
\* Authorization header, client_id or client_secret put there by the
\* module, no method is selected and the missing-secret error is never
\* thrown; the grant's own parameters are on the request as without the
\* callback.  Without the callback, the request carries a selected method.
C16_CallbackReplacesSelection ==
    /\ loc.request # NoRec =>
            /\ loc.request.grant_type \in {"authorization_code", "refresh_token"}
            /\ loc.request.grant_type = "authorization_code" =>
                    loc.request.code = opt.authorizationCode
            /\ loc.request.grant_type = "refresh_token" =>
                    loc.request.refresh_token = loc.tokens.refresh_token
            /\ IF cap.addClientAuthentication
               THEN /\ loc.request.method = "custom"
                    /\ loc.request.authorization = NoRec
                    /\ loc.request.client_id = Undefined
                    /\ loc.request.client_secret = Undefined
               ELSE /\ loc.request.method \in
                            {"client_secret_basic", "client_secret_post", "none"}
                    /\ loc.request.callback = "none"
                    /\ loc.request.method = loc.authMethod
                    /\ RequestClientId(loc.request) = loc.clientInformation.client_id
    /\ cap.addClientAuthentication =>
            /\ thrown # "client_secret_basic authentication requires a client_secret"
            /\ loc.authMethod = Undefined
    /\ ~cap.addClientAuthentication => ~Did("addClientAuthentication")

C16_Witness ==
    /\ cap.addClientAuthentication
    /\ loc.clientInformation = [client_id |-> "abc", client_secret |-> "shh"]
    /\ loc.metadata # NoRec
    /\ "client_secret_basic" \in loc.metadata.token_endpoint_auth_methods_supported
    /\ Completed("addClientAuthentication")
    /\ loc.request # NoRec
    /\ loc.request.grant_type = "refresh_token"
    /\ loc.request.authorization = NoRec
    /\ result = "AUTHORIZED"

\* C17 as stated, for addClientAuthentication: a token request is sent
\* only after the provider's callback has completed, and so carries what
\* the callback sets.
C17_CallbackCompletedBeforeRequest ==
    cap.addClientAuthentication =>
        /\ loc.request # NoRec => loc.request.callback = "completed"
        /\ \A i \in Pos :
                trace[i].op = "fetch:token" =>
                    i > 1 /\ trace[i - 1] = Ev("addClientAuthentication", TRUE)

\* A token request was sent while the callback had yet to set its headers
\* and parameters, and the call returned "AUTHORIZED" all the same.
C17_RequestSentBeforeCallback ==
    /\ cap.addClientAuthentication
    /\ loc.request # NoRec
    /\ loc.request.callback = "pending"
    /\ loc.request.grant_type = "authorization_code"
    /\ ~Did("addClientAuthentication")
    /\ result = "AUTHORIZED"

\* The requests of a discovery: positions of the trace, the candidates
\* they went to, and the kinds of answers.
Fetches == {i \in Pos : trace[i].op = "fetch:metadata"}

Candidates == 1..Len(loc.urlsToTry)

Answered(i) == i \in Fetches /\ trace[i].ok

Refused(i) == Answered(i) /\ trace[i].status >= 400 /\ trace[i].status < 500

RequestsTo(k) == {i \in Fetches : trace[i].candidate = k}

\* The candidates are requested in list order from the first on, and a
\* request goes to the next candidate only right after a 4xx answer.
ProbedInOrder ==
    /\ \A i \in Fetches : trace[i].candidate \in Candidates
    /\ Fetches # {} => trace[1].op = "fetch:metadata" /\ trace[1].candidate = 1
    /\ \A i \in Fetches :
            i > 1 =>
                /\ i - 1 \in Fetches
                /\ \/ /\ trace[i].candidate = trace[i - 1].candidate + 1
                      /\ Refused(i - 1)
                   \/ /\ trace[i].candidate = trace[i - 1].candidate
                      /\ ~trace[i - 1].ok

\* Any 4xx answer leads on: to the next candidate, or past the last one
\* to the result undefined.
RefusalContinues ==
    \A i \in Fetches :
        (Refused(i) /\ i = Len(trace)) =>
            IF trace[i].candidate < Len(loc.urlsToTry)
            THEN pc = "fetch" /\ loc.index = trace[i].candidate + 1
            ELSE pc = "done" /\ result = "RETURNED" /\ loc.metadata = NoRec

\* An answer that is no 4xx is the last request: a 2xx has its document
\* read and decides what is returned or thrown, any other is fatal.
OtherAnswerDecides ==
    \A i \in Fetches :
        (Answered(i) /\ ~Refused(i)) =>
            /\ \A j \in Fetches : j <= i
            /\ loc.index = trace[i].candidate
            /\ IF trace[i].status >= 200 /\ trace[i].status <= 299
               THEN /\ pc \in {"body", "done"}
                    /\ pc = "done" =>
                            /\ trace[Len(trace)].op = "json"
                            /\ \/ result = "RETURNED" /\ loc.metadata \in Metadatas
                               \/ /\ result = "THROWN"
                                  /\ thrown \in {"ZodError", "Incompatible OIDC provider"}
               ELSE /\ pc = "done"
                    /\ result = "THROWN"
                    /\ thrown = "HTTP error trying to load metadata"
                    /\ loc.named = loc.urlsToTry[trace[i].candidate].url

\* The result is undefined exactly when every candidate answered 4xx.
AllRefused == \A k \in Candidates : \E i \in RequestsTo(k) : Refused(i)

UndefinedWhenAllRefused ==
    /\ AllRefused => pc = "done" /\ result = "RETURNED" /\ loc.metadata = NoRec
    /\ (pc = "done" /\ result = "RETURNED" /\ loc.metadata = NoRec) => AllRefused

\* C18 as stated: candidates are probed one after the other in list order;
\* any 4xx answer leads to the next candidate; the first answer that is no
\* 4xx decides and no later candidate is requested; when every candidate
\* answers 4xx the result is undefined and each candidate was requested
\* exactly once.
C18_AsStated ==
    /\ ProbedInOrder
    /\ RefusalContinues
    /\ OtherAnswerDecides
    /\ UndefinedWhenAllRefused
    /\ AllRefused => \A k \in Candidates : Cardinality(RequestsTo(k)) = 1

\* C18 amended: as C18, each candidate being probed once, which is one
\* request, or two when the first, sent with the headers, met a transport
\* error and was repeated without them.
C18_SequentialProbing ==
    /\ ProbedInOrder
    /\ RefusalContinues
    /\ OtherAnswerDecides
    /\ UndefinedWhenAllRefused
    /\ \A k \in Candidates :
            \/ Cardinality(RequestsTo(k)) <= 1
            \/ /\ Cardinality(RequestsTo(k)) = 2
               /\ \E i \in RequestsTo(k) :
                    /\ trace[i] = Probe(k, TRUE, 0, "TypeError")
                    /\ i + 1 \in RequestsTo(k)
                    /\ ~trace[i + 1].headers

C18_Witness ==
    /\ Len(loc.urlsToTry) = 4
    /\ Len(trace) = 5
    /\ trace[1] = Probe(1, TRUE, 0, "TypeError")
    /\ trace[2] = Probe(1, FALSE, 404, Undefined)
    /\ trace[3] = Probe(2, TRUE, 401, Undefined)
    /\ trace[4] = Probe(3, TRUE, 200, Undefined)
    /\ result = "RETURNED"
    /\ loc.metadata = MdFull

\* C19: when the request to a candidate and its repetition without
\* headers both meet a transport error, the function throws the CORS error
\* naming that candidate's URL, and no request is made after those two,
\* whatever candidates remain.
C19_CorsFailureIsFatal ==
    \A i \in Fetches :
        (/\ trace[i].error = "TypeError"
         /\ ~trace[i].headers) =>
            /\ i > 1
            /\ trace[i - 1] = Probe(trace[i].candidate, TRUE, 0, "TypeError")
            /\ i = Len(trace)
            /\ pc = "done"
            /\ result = "THROWN"
            /\ thrown = "CORS error trying to load metadata"
            /\ loc.named = loc.urlsToTry[trace[i].candidate].url
            /\ \A k \in Candidates : k > trace[i].candidate => RequestsTo(k) = {}

C19_Witness ==
    /\ Len(loc.urlsToTry) = 4
    /\ Len(trace) = 2
    /\ trace[1] = Probe(1, TRUE, 0, "TypeError")
    /\ trace[2] = Probe(1, FALSE, 0, "TypeError")
    /\ thrown = "CORS error trying to load metadata"
    /\ loc.named = Url("https://srv.example", <<".well-known", "oauth-authorization-server", "mcp">>)

\* The run has neither written through the provider nor sent a
\* registration or token request.
NothingWritten ==
    \A i \in Pos :
        trace[i].op \notin
            { "saveClientInformation", "saveTokens", "saveCodeVerifier",
              "redirectToAuthorization", "fetch:register", "registerClient",
              "fetch:token", "exchangeAuthorization", "refreshAuthorization" }

\* C20 as stated: when authorization-server discovery reaches a 2xx OIDC
\* document without S256, auth() throws the incompatible-provider error,
\* and in that call nothing was written through the provider,
\* invalidateCredentials was not invoked, and no registration or token
\* request was sent.
C20_AsStated ==
    loc.pkceLacking = "oidc" =>
        /\ pc = "done"
        /\ result = "THROWN"
        /\ thrown = "Incompatible OIDC provider"
        /\ NothingWritten
        /\ inval = <<>>
        /\ runErrs = <<"Incompatible OIDC provider">>

\* C20 amended: when authorization-server discovery reaches a 2xx OIDC
\* document without S256, the run throws the incompatible-provider error
\* there and then: auth() does not catch it, so the call throws it with no
\* invalidateCredentials on its account and no further run, and the run
\* has written nothing through the provider and sent no registration or
\* token request.  The same holds of every failure of resource selection
\* or of authorization-server discovery.  In the first run of a call
\* nothing at all has been invoked on the provider's store by then; a
\* second run comes after the invalidation that started it.
C20_DiscoveryFailsBeforeWrites ==
    /\ loc.pkceLacking = "oidc" =>
            /\ pc = "done"
            /\ result = "THROWN"
            /\ thrown = "Incompatible OIDC provider"
            /\ trace[Len(trace)] = Ev("discoverAuthorizationServerMetadata", FALSE)
            /\ loc.metadata = NoRec
    /\ (/\ trace # <<>>
         /\ ~trace[Len(trace)].ok
         /\ trace[Len(trace)].op \in
                { "validateResourceURL", "selectResourceURL",
                  "discoverAuthorizationServerMetadata" }) =>
            /\ pc = "done"
            /\ result = "THROWN"
            /\ thrown = runErrs[Len(runErrs)]
            /\ NothingWritten
            /\ Len(inval) < run
            /\ run = 1 => inval = <<>>

C20_Witness ==
    /\ loc.pkceLacking = "oidc"
    /\ run = 1
    /\ store.tokens = [access_token |-> "A1", refresh_token |-> "R1"]
    /\ store.client = NoRec
    /\ cap.saveClientInformation
    /\ thrown = "Incompatible OIDC provider"

\* C21: a candidate URL is requested at most twice; the first request
\* carries the headers; only a TypeError of the request with headers is
\* followed by a repetition, one, without headers; a TypeError of the
\* repetition is no exception of the fetch but the absence of a response,
\* which the discovery reports as its CORS error; any other error of
\* either request is thrown at once with no request after it.
C21_CorsRetry ==
    /\ \A k \in Candidates :
            /\ Cardinality(RequestsTo(k)) <= 2
            /\ \A i \in RequestsTo(k) :
                    (\A j \in RequestsTo(k) : i <= j) => trace[i].headers
    /\ \A i \in Fetches :
            /\ ~trace[i].headers =>
                    /\ i > 1
                    /\ trace[i - 1] = Probe(trace[i].candidate, TRUE, 0, "TypeError")
            /\ (trace[i].headers /\ trace[i].error = "TypeError") =>
                    IF i = Len(trace)
                    THEN pc = "retry" /\ result = "PENDING"
                    ELSE /\ trace[i + 1].op = "fetch:metadata"
                         /\ trace[i + 1].candidate = trace[i].candidate
                         /\ ~trace[i + 1].headers
            /\ (~trace[i].headers /\ trace[i].error = "TypeError") =>
                    /\ i = Len(trace)
                    /\ thrown = "CORS error trying to load metadata"
            /\ trace[i].error \notin {Undefined, "TypeError"} =>
                    /\ i = Len(trace)
                    /\ pc = "done"
                    /\ result = "THROWN"
                    /\ thrown = trace[i].error
    /\ thrown # "TypeError"

C21_Witness ==
    /\ Len(loc.urlsToTry) = 4
    /\ Len(trace) = 4
    /\ trace[1] = Probe(1, TRUE, 0, "TypeError")
    /\ trace[2] = Probe(1, FALSE, 404, Undefined)
    /\ trace[3] = Probe(2, TRUE, 0, "TypeError")
    /\ trace[4] = Probe(2, FALSE, 0, "AbortError")
    /\ thrown = "AbortError"

\* The response discoverMetadataWithFallback was left with by its probe k
\* (1 the first URL, 2 rootUrl), when that probe is over: none after a
\* TypeError of the request without headers, or the status answered.
ProbeOver(k) == \E i \in RequestsTo(k) : trace[i].ok \/ ~trace[i].headers

NoResponse(k) == \E i \in RequestsTo(k) : ~trace[i].ok /\ ~trace[i].headers

StatusOf(k, st) == \E i \in RequestsTo(k) : trace[i].ok /\ trace[i].status = st

\* C22: the first URL requested is the path-aware well-known URL, or the
\* explicit metadata URL when one is given; rootUrl is requested only
\* when no explicit URL is given, the path of the server URL is not "/",
\* and the first probe ended without a response or with 404; with the
\* path "/" or an explicit URL no fallback request is made.
C22_FallbackOnlyOffRoot ==
    /\ loc.urlsToTry[1].url =
            IF loc.metadataUrl # NoRec
            THEN loc.metadataUrl
            ELSE Url(loc.issuer.origin,
                     <<".well-known", "oauth-protected-resource">>
                        \o StripTrailingSlash(loc.issuer.path))
    /\ RequestsTo(2) # {} =>
            /\ loc.metadataUrl = NoRec
            /\ loc.issuer.path # <<>>
            /\ NoResponse(1) \/ StatusOf(1, 404)
    /\ (loc.metadataUrl # NoRec \/ loc.issuer.path = <<>>) =>
            /\ RequestsTo(2) = {}
            /\ Len(loc.urlsToTry) = 1

\* The server URL has the path "/", no explicit URL is given, both
\* requests of the well-known URL meet a TypeError, and the same URL is
\* requested again as rootUrl.
C22_FallbackAtRoot ==
    /\ loc.issuer = Url("https://srv.example", <<>>)
    /\ loc.metadataUrl = NoRec
    /\ Len(trace) = 3
    /\ trace[1] = Probe(1, TRUE, 0, "TypeError")
    /\ trace[2] = Probe(1, FALSE, 0, "TypeError")
    /\ trace[3] = Probe(2, TRUE, 404, Undefined)
    /\ loc.urlsToTry[2].url = loc.urlsToTry[1].url
    /\ thrown = NotImplemented

\* The probe whose outcome discoverMetadataWithFallback returns.
FinalProbe == IF RequestsTo(2) # {} THEN 2 ELSE 1

\* fetchFn threw an error that is no TypeError, which the discovery
\* rethrows as it is.
FetchRethrew == \E i \in Fetches : trace[i].error \notin {Undefined, "TypeError"}

\* C23: the function reports distinct errors for distinct final outcomes:
\* the not-implemented error when the probes end with 404, an error of
\* another kind when they end without a response, the HTTP error for any
\* other status outside 2xx; metadata is returned only for a final 2xx.
C23_DistinctErrorKinds ==
    (pc = "done" /\ ~FetchRethrew) =>
        /\ StatusOf(FinalProbe, 404) =>
                result = "THROWN" /\ thrown = NotImplemented
        /\ NoResponse(FinalProbe) =>
                /\ result = "THROWN"
                /\ thrown \notin {NotImplemented, ResourceDiscoveryError}
        /\ (\E st \in Statuses \ {404} : ~Ok(st) /\ StatusOf(FinalProbe, st)) =>
                result = "THROWN" /\ thrown = ResourceDiscoveryError
        /\ result = "RETURNED" =>
                /\ \E st \in Statuses : Ok(st) /\ StatusOf(FinalProbe, st)
                /\ loc.resourceMetadata \in ResourceMetadatas

\* Both probes of a server URL with a path end without a response, and
\* the error thrown is the one thrown for 404.
C23_NoResponseReportedAsNotImplemented ==
    /\ loc.issuer = ServerUrl
    /\ loc.metadataUrl = NoRec
    /\ Len(trace) = 4
    /\ trace[1] = Probe(1, TRUE, 0, "TypeError")
    /\ trace[2] = Probe(1, FALSE, 0, "TypeError")
    /\ trace[3] = Probe(2, TRUE, 0, "TypeError")
    /\ trace[4] = Probe(2, FALSE, 0, "TypeError")
    /\ result = "THROWN"
    /\ thrown = NotImplemented

\* What does hold of the outcomes: 404 and no response alike end in the
\* not-implemented error.
ResourceOutcomes ==
    (pc = "done" /\ ~FetchRethrew) =>
        /\ (StatusOf(FinalProbe, 404) \/ NoResponse(FinalProbe)) =>
                result = "THROWN" /\ thrown = NotImplemented
        /\ (\E st \in Statuses \ {404} : ~Ok(st) /\ StatusOf(FinalProbe, st)) =>
                result = "THROWN" /\ thrown = ResourceDiscoveryError
        /\ result = "RETURNED" =>
                /\ \E st \in Statuses : Ok(st) /\ StatusOf(FinalProbe, st)
                /\ loc.resourceMetadata \in ResourceMetadatas

\* The authorization server the run is to use: the first one the
\* resource metadata lists, the server URL when discovery failed or the
\* list is absent or empty.
ExpectedAuthorizationServer ==
    IF loc.resourceMetadata = NoRec THEN ServerUrl
    ELSE IF loc.resourceMetadata.authorization_servers = <<>> THEN ServerUrl
    ELSE loc.resourceMetadata.authorization_servers[1]

\* C24: a failure of resource metadata discovery does not end the run,
\* which goes on without resource metadata and with the server URL as
\* authorization server; after a success the authorization server is the
\* first one listed, or the server URL when none is; and the discovery of
\* authorization server metadata, the registration and the token request
\* of the run are all addressed to that authorization server.
C24_AuthorizationServerChosen ==
    /\ \A i \in Pos :
            trace[i].op = "discoverOAuthProtectedResourceMetadata" =>
                /\ i = 1
                /\ IF trace[i].ok
                   THEN loc.resourceMetadata \in ResourceMetadatas
                   ELSE /\ loc.resourceMetadata = NoRec
                        /\ loc.authorizationServerUrl = ServerUrl
                /\ loc.authorizationServerUrl = ExpectedAuthorizationServer
                /\ Len(trace) = 1 =>
                        /\ pc = "resource"
                        /\ result = "PENDING"
                        /\ Len(runErrs) = run - 1
    /\ \A k \in DOMAIN loc.sent :
            loc.sent[k].op # "discoverOAuthProtectedResourceMetadata" =>
                loc.sent[k].server = ExpectedAuthorizationServer
    /\ Did("discoverAuthorizationServerMetadata") =>
            \E k \in DOMAIN loc.sent :
                loc.sent[k].op = "discoverAuthorizationServerMetadata"
    /\ Did("fetch:register") =>
            \E k \in DOMAIN loc.sent : loc.sent[k].op = "registerClient"
    /\ Did("fetch:token") =>
            \E k \in DOMAIN loc.sent :
                loc.sent[k].op \in {"exchangeAuthorization", "refreshAuthorization"}

C24_Witness ==
    /\ result \in {"AUTHORIZED", "REDIRECT"}
    /\ trace[1] = Ev("discoverOAuthProtectedResourceMetadata", TRUE)
    /\ loc.resourceMetadata # NoRec
    /\ Len(loc.resourceMetadata.authorization_servers) = 2
    /\ \E k \in DOMAIN loc.sent :
            /\ loc.sent[k].op = "registerClient"
            /\ loc.sent[k].server = AuthServerUrl
    /\ store.client = [client_id |-> "reg1", client_secret |-> Undefined]
    /\ result = "REDIRECT"

\* Resource metadata discovery fails and the call still ends AUTHORIZED,
\* its token request addressed to the server URL.
C24_FailureIgnored ==
    /\ result \in {"AUTHORIZED", "REDIRECT"}
    /\ trace[1] = Ev("discoverOAuthProtectedResourceMetadata", FALSE)
    /\ \E k \in DOMAIN loc.sent :
            /\ loc.sent[k].op = "exchangeAuthorization"
            /\ loc.sent[k].server = ServerUrl
    /\ result = "AUTHORIZED"

\* The step of the run that selects the resource.
Selection(i) == trace[i].op \in {"validateResourceURL", "selectResourceURL"}

\* The selection as selectResourceURL makes it: what the provider's
\* validateResourceURL answers, whatever the metadata; without that
\* member, nothing when there is no resource metadata, the metadata's
\* resource when it allows the server URL, and the mismatch error
\* otherwise, after which the run has done nothing more.
ResourceSelected ==
    \A i \in Pos : Selection(i) =>
        /\ i = 2
        /\ cap.validateResourceURL <=> trace[i].op = "validateResourceURL"
        /\ (trace[i].op = "validateResourceURL" /\ trace[i].ok) =>
                loc.resource = [ServerUrl EXCEPT !.hash = ""]
        /\ trace[i].op = "selectResourceURL" =>
                IF loc.resourceMetadata = NoRec
                THEN trace[i].ok /\ loc.resource = NoRec
                ELSE IF CheckResourceAllowed([ServerUrl EXCEPT !.hash = ""],
                                             loc.resourceMetadata.resource)
                THEN trace[i].ok /\ loc.resource = loc.resourceMetadata.resource
                ELSE /\ ~trace[i].ok
                     /\ Len(trace) = 2
                     /\ pc = "done"
                     /\ result = "THROWN"
                     /\ thrown = "Protected resource does not match expected"
                     /\ loc.resource = NoRec

Mismatched == \E i \in Pos : trace[i] = Ev("selectResourceURL", FALSE)

\* C25 as stated: the selection is as above, and when it fails with the
\* mismatch error the call has discovered no authorization server
\* metadata and written nothing through the provider.
C25_AsStated ==
    /\ ResourceSelected
    /\ Mismatched =>
            /\ NothingWritten
            /\ ~Did("discoverAuthorizationServerMetadata")
            /\ inval = <<>>
            /\ runErrs = <<"Protected resource does not match expected">>

\* C25 amended: the selection is as above, and when it fails with the
\* mismatch error the run has discovered no authorization server
\* metadata and written nothing through the provider; auth() does not
\* catch the error, so no invalidation and no further run follow it.  A
\* second run that fails so comes after the first run and the
\* invalidation that started it.
C25_SelectResource ==
    /\ ResourceSelected
    /\ Mismatched =>
            /\ NothingWritten
            /\ ~Did("discoverAuthorizationServerMetadata")
            /\ Len(inval) < run
            /\ run = 1 => inval = <<>>
            /\ runErrs[Len(runErrs)] = "Protected resource does not match expected"
            /\ Len(runErrs) = run

\* The provider's answer stands although the metadata's resource does
\* not allow the server URL, and the call ends AUTHORIZED with that
\* resource in its token request.
C25_Witness ==
    /\ cap.validateResourceURL
    /\ loc.resourceMetadata # NoRec
    /\ loc.resourceMetadata.resource = Url("https://other.example", <<>>)
    /\ loc.resource = [ServerUrl EXCEPT !.hash = ""]
    /\ loc.request # NoRec
    /\ loc.request.resource = loc.resource
    /\ result = "AUTHORIZED"

\* The mismatch error ends a call without validateResourceURL.
C25_MismatchWitness ==
    /\ ~cap.validateResourceURL
    /\ Mismatched
    /\ run = 1
    /\ thrown = "Protected resource does not match expected"
    /\ store.tokens # NoRec

\* C26: in a call given a fetchFn, every primitive that sends requests
\* (resource metadata discovery, authorization server metadata discovery,
\* registration, code exchange, refresh) sends them through that fetchFn
\* and none through the global fetch.
C26_EveryRequestThroughFetchFn ==
    opt.fetchFn =>
        \A k \in DOMAIN loc.sent : loc.sent[k].via = "fetchFn"

\* A call given a fetchFn registers a client and refreshes the tokens
\* through the global fetch, the discoveries going through the fetchFn,
\* and returns AUTHORIZED.
C26_GlobalFetchUsed ==
    /\ opt.fetchFn
    /\ result = "AUTHORIZED"
    /\ Len(loc.sent) = 4
    /\ loc.sent[1].op = "discoverOAuthProtectedResourceMetadata"
    /\ loc.sent[1].via = "fetchFn"
    /\ loc.sent[2].op = "discoverAuthorizationServerMetadata"
    /\ loc.sent[2].via = "fetchFn"
    /\ loc.sent[3].op = "registerClient"
    /\ loc.sent[3].via = "fetch"
    /\ loc.sent[4].op = "refreshAuthorization"
    /\ loc.sent[4].via = "fetch"

\* What does hold: the discoveries and the code exchange go through the
\* fetchFn given, registration and refresh through the global fetch.
FetchFnWherePassed ==
    opt.fetchFn =>
        \A k \in DOMAIN loc.sent :
            loc.sent[k].via =
                IF loc.sent[k].op \in {"registerClient", "refreshAuthorization"}
                THEN "fetch" ELSE "fetchFn"

\* C27: when a call returns REDIRECT, its last run generated a PKCE pair
\* in startAuthorization, the verifier saved through saveCodeVerifier is
\* that pair's, and the URL handed to redirectToAuthorization has that
\* pair's challenge as code_challenge and the verifier in none of its
\* parameters; a run that asks for a new authorization holds no verifier
\* but the one it generated itself, so a retried run takes none over from
\* the run before it or from the provider.
C27_VerifierOfTheChallenge ==
    /\ result = "REDIRECT" =>
            /\ Len(trace) >= 3
            /\ trace[Len(trace) - 2] = Ev("startAuthorization", TRUE)
            /\ trace[Len(trace) - 1] = Ev("saveCodeVerifier", TRUE)
            /\ trace[Len(trace)] = Ev("redirectToAuthorization", TRUE)
            /\ loc.codeVerifier \in Verifiers
            /\ store.verifier = loc.codeVerifier
            /\ loc.authorizationUrl.code_challenge = Challenge(loc.codeVerifier)
            /\ loc.authorizationUrl.code_challenge_method = "S256"
            /\ \A param \in {"response_type", "client_id", "code_challenge_method", "state"} :
                    loc.authorizationUrl[param] # loc.codeVerifier
    /\ (opt.authorizationCode = Undefined /\ pc # "idle") =>
            /\ ~Did("codeVerifier")
            /\ IF Completed("startAuthorization")
               THEN loc.codeVerifier \in Verifiers
               ELSE loc.codeVerifier = Undefined /\ loc.authorizationUrl = NoRec

\* A retried run generates the pair "v2" and redirects, the provider
\* having held "v1".
C27_Witness ==
    /\ result = "REDIRECT"
    /\ run = 2
    /\ loc.recoveredFrom = "refreshAuthorization"
    /\ loc.codeVerifier = "v2"
    /\ store.verifier = "v2"
    /\ loc.authorizationUrl.code_challenge = Challenge("v2")

\* The client a token request was made for.
RequestClient ==
    IF loc.request.method = "client_secret_basic"
    THEN loc.request.authorization.credentials[1]
    ELSE loc.request.client_id

\* C28: over any sequence of calls, each run to its end or abandoned at
\* an await, a store that held tokens only along with client information
\* still does; and when tokens are saved, they were obtained by a request
\* made for the client whose information the store holds then.
C28_TokensImplyClient ==
    /\ store.tokens # NoRec => store.client # NoRec
    /\ (trace # <<>> /\ trace[Len(trace)] = Ev("saveTokens", TRUE)) =>
            /\ store.tokens = loc.newTokens
            /\ store.client # NoRec
            /\ loc.clientInformation = store.client
            /\ loc.request # NoRec
            /\ RequestClient = store.client.client_id

\* A second call, exchanging a code for the client the first call
\* registered, is abandoned between the exchange and saveTokens.
C28_Witness ==
    /\ calls = 2
    /\ result = "ABANDONED"
    /\ opt.authorizationCode = "CODE"
    /\ trace # <<>>
    /\ trace[Len(trace)] = Ev("exchangeAuthorization", TRUE)
    /\ store.client = [client_id |-> "reg1", client_secret |-> Undefined]
    /\ loc.clientInformation = store.client
    /\ store.tokens = NoRec

\* A call abandoned right after saveClientInformation.
C28_AbandonedAfterRegistration ==
    /\ result = "ABANDONED"
    /\ trace # <<>>
    /\ trace[Len(trace)] = Ev("saveClientInformation", TRUE)
    /\ store.client = [client_id |-> "reg1", client_secret |-> Undefined]
    /\ store.tokens = NoRec

\* The requests a discovery has made of one URL.
RequestsOf(url) ==
    {i \in Fetches : loc.urlsToTry[trace[i].candidate].url = url}

ProbedUrls == {loc.urlsToTry[k].url : k \in DOMAIN loc.urlsToTry}

\* C29, of resource metadata discovery: it probes at most two URLs and
\* requests each URL at most twice, once with the headers and once
\* without.
C29_EachUrlAtMostTwice ==
    /\ Cardinality(ProbedUrls) <= 2
    /\ \A url \in ProbedUrls : Cardinality(RequestsOf(url)) <= 2

\* The well-known URL of a server URL with the path "/" is requested four
\* times in one discovery.
C29_RootUrlRequestedFourTimes ==
    /\ loc.issuer = Url("https://srv.example", <<>>)
    /\ loc.metadataUrl = NoRec
    /\ ProbedUrls = {Url("https://srv.example", <<".well-known", "oauth-protected-resource">>)}
    /\ Cardinality(RequestsOf(loc.urlsToTry[1].url)) = 4
    /\ \A i \in Fetches : trace[i].error = "TypeError"
    /\ pc = "done"
    /\ result = "THROWN"

\* What does hold of a discovery of either kind: at most two probes of
\* resource metadata and four of authorization server metadata, each of
\* at most two requests.
ProbeBounds ==
    /\ Len(loc.urlsToTry) <= 4
    /\ loc.issuer # NoRec => Len(loc.urlsToTry) <= 2
    /\ \A k \in Candidates : Cardinality(RequestsTo(k)) <= 2
    /\ Len(trace) <= 2 * Len(loc.urlsToTry) + 1

\* What does hold of a call: at most two runs, and in a run at most one
\* discovery of each kind, one registration request and one token request.
Count(op) == Cardinality({i \in Pos : trace[i].op = op})

RunBounds ==
    /\ run <= 2
    /\ Len(runErrs) <= run
    /\ Count("discoverOAuthProtectedResourceMetadata") <= 1
    /\ Count("discoverAuthorizationServerMetadata") <= 1
    /\ Count("fetch:register") <= 1
    /\ Count("fetch:token") <= 1
    /\ Len(trace) <= 16

\* A call made returns AUTHORIZED or REDIRECT or throws, and a discovery
\* begun returns or throws.
CallEnds == (result = "PENDING") ~> (result \in {"AUTHORIZED", "REDIRECT", "THROWN"})

DiscoveryEnds == <>(pc = "done" /\ result \in {"RETURNED", "THROWN"})

====
